---------------------------- MODULE Spec2Model ----------------------------
(***************************************************************************)
(* A model of the ZX Spectrum emulator in src/z80.c: the 64 KiB memory     *)
(* with its write-protected ROM, the Z80 interpreter (cpu_step and its CB, *)
(* ED and DDCB/FDCB sub-decoders), maskable interrupt acceptance           *)
(* (cpu_interrupt) and the inner loop of main that drives them.            *)
(*                                                                         *)
(* The interpreter is modelled for the subset of opcodes listed in         *)
(* Modelled / EDModelled; every CB and DDCB/FDCB opcode is modelled.  The  *)
(* alternate register bank is left out: no modelled opcode reads it.       *)
(* Memory is the zero-filled array of the source, kept as the finite map   *)
(* of the cells that were given a value; every other cell reads 0.         *)
(***************************************************************************)
EXTENDS Integers, Sequences, FiniteSets, TLC

\* ------------------------------------------------------------------------
\* Bounds of the model (not program constants)
\* ------------------------------------------------------------------------
\* cpu_step calls explored in one behaviour of Spec
MaxSteps == 4
\* cpu_interrupt calls explored in one behaviour of Spec
MaxInterrupts == 1
\* iterations of main's inner loop explored in one behaviour of SpecMain
MaxIterations == 17480
\* audio-latency breaks out of main's inner loop in one behaviour of SpecMain
MaxThrottles == 1

\* ------------------------------------------------------------------------
\* Program constants
\* ------------------------------------------------------------------------
T_STATES_PER_FRAME == 69888
ROM_SIZE == 16384

FLAG_C  == 1
FLAG_N  == 2
FLAG_PV == 4
FLAG_H  == 16
FLAG_Z  == 64
FLAG_S  == 128

\* ------------------------------------------------------------------------
\* Fixed-width integer helpers (uint8_t, uint16_t, int8_t of the source)
\* ------------------------------------------------------------------------
Byte(x) == x % 256
Word(x) == x % 65536
SignedByte(b) == IF b >= 128 THEN b - 256 ELSE b
Bit(v, i) == (v \div (2 ^ i)) % 2

\* bitwise AND and OR of values of up to nine bits (a uint8_t plus a carry)
BitAnd(a, b) ==
    Bit(a,0) * Bit(b,0) + 2 * Bit(a,1) * Bit(b,1) + 4 * Bit(a,2) * Bit(b,2)
    + 8 * Bit(a,3) * Bit(b,3) + 16 * Bit(a,4) * Bit(b,4)
    + 32 * Bit(a,5) * Bit(b,5) + 64 * Bit(a,6) * Bit(b,6)
    + 128 * Bit(a,7) * Bit(b,7) + 256 * Bit(a,8) * Bit(b,8)

BitOr(a, b) == a + b - BitAnd(a, b)

Hi(w) == (w \div 256) % 256
Lo(w) == w % 256
MkWord(hi, lo) == hi * 256 + lo

\* ------------------------------------------------------------------------
\* Memory: readByte / writeByte / readWord / writeWord
\* ------------------------------------------------------------------------
readByte(mem, addr) ==
    LET a == Word(addr) IN IF a \in DOMAIN mem THEN mem[a] ELSE 0

\* a writeByte that lacks the ROM guard
writeByteNoGuard(mem, addr, val) ==
    LET a == Word(addr)
    IN [x \in (DOMAIN mem) \cup {a} |-> IF x = a THEN val ELSE mem[x]]

writeByte(mem, addr, val) ==
    LET a == Word(addr)
    IN IF a < ROM_SIZE THEN mem
       ELSE [x \in (DOMAIN mem) \cup {a} |-> IF x = a THEN val ELSE mem[x]]

readWord(mem, addr) ==
    MkWord(readByte(mem, addr + 1), readByte(mem, addr))

writeWord(mem, addr, val) ==
    writeByte(writeByte(mem, addr, Lo(val)), addr + 1, Hi(val))

\* ------------------------------------------------------------------------
\* Register pair and flag helpers
\* ------------------------------------------------------------------------
get_BC(c) == MkWord(c.reg_B, c.reg_C)
get_DE(c) == MkWord(c.reg_D, c.reg_E)
get_HL(c) == MkWord(c.reg_H, c.reg_L)
get_AF(c) == MkWord(c.reg_A, c.reg_F)
set_BC(c, v) == [c EXCEPT !.reg_B = Hi(v), !.reg_C = Lo(v)]
set_DE(c, v) == [c EXCEPT !.reg_D = Hi(v), !.reg_E = Lo(v)]
set_HL(c, v) == [c EXCEPT !.reg_H = Hi(v), !.reg_L = Lo(v)]
set_IXh(c, v) == [c EXCEPT !.reg_IX = MkWord(v, Lo(c.reg_IX))]
set_IXl(c, v) == [c EXCEPT !.reg_IX = MkWord(Hi(c.reg_IX), v)]
set_IYh(c, v) == [c EXCEPT !.reg_IY = MkWord(v, Lo(c.reg_IY))]
set_IYl(c, v) == [c EXCEPT !.reg_IY = MkWord(Hi(c.reg_IY), v)]

\* f is a single-bit mask, cond a BOOLEAN
set_flag(F, f, cond) ==
    (F - ((F \div f) % 2) * f) + (IF cond THEN f ELSE 0)
get_flag(F, f) == (F \div f) % 2

set_xy_flags(F, value) ==
    (F - Bit(F, 3) * 8 - Bit(F, 5) * 32) + Bit(value, 3) * 8 + Bit(value, 5) * 32

\* TRUE iff r has an even number of 1 bits
EvenParity(r) ==
    (Bit(r,0) + Bit(r,1) + Bit(r,2) + Bit(r,3)
     + Bit(r,4) + Bit(r,5) + Bit(r,6) + Bit(r,7)) % 2 = 0

set_flags_szp(F, r) ==
    set_xy_flags(
        set_flag(set_flag(set_flag(F, FLAG_S, r >= 128), FLAG_Z, r = 0),
                 FLAG_PV, EvenParity(r)),
        r)

\* H := 0, N := 0, C := carry   (tail of every rotate/shift helper)
RotFlags(F, r, carry) ==
    set_flag(set_flag(set_flag(set_flags_szp(F, r), FLAG_H, FALSE),
                      FLAG_N, FALSE), FLAG_C, carry = 1)

cpu_rlc(F, v) == LET cy == Bit(v, 7)  r == Byte(v * 2) + cy
                 IN [r |-> r, F |-> RotFlags(F, r, cy)]
cpu_rrc(F, v) == LET cy == Bit(v, 0)  r == (v \div 2) + cy * 128
                 IN [r |-> r, F |-> RotFlags(F, r, cy)]
cpu_rl(F, v)  == LET oc == get_flag(F, FLAG_C)  nc == Bit(v, 7)
                     r == Byte(v * 2) + oc
                 IN [r |-> r, F |-> RotFlags(F, r, nc)]
cpu_rr(F, v)  == LET oc == get_flag(F, FLAG_C)  nc == Bit(v, 0)
                     r == (v \div 2) + oc * 128
                 IN [r |-> r, F |-> RotFlags(F, r, nc)]
cpu_sla(F, v) == LET cy == Bit(v, 7)  r == Byte(v * 2)
                 IN [r |-> r, F |-> RotFlags(F, r, cy)]
cpu_sra(F, v) == LET cy == Bit(v, 0)  r == (v \div 2) + Bit(v, 7) * 128
                 IN [r |-> r, F |-> RotFlags(F, r, cy)]
cpu_srl(F, v) == LET cy == Bit(v, 0)  r == v \div 2
                 IN [r |-> r, F |-> RotFlags(F, r, cy)]
cpu_sll(F, v) == LET cy == Bit(v, 7)  r == Byte(v * 2) + 1
                 IN [r |-> r, F |-> RotFlags(F, r, cy)]

cpu_bit(F, v, b) ==
    LET zero == Bit(v, b) = 0
    IN set_xy_flags(
         set_flag(set_flag(set_flag(set_flag(set_flag(F,
            FLAG_Z, zero), FLAG_PV, zero), FLAG_H, TRUE), FLAG_N, FALSE),
            FLAG_S, b = 7 /\ v >= 128),
         v)

cpu_inc(F, v) ==
    LET r == Byte(v + 1)
    IN [r |-> r,
        F |-> set_xy_flags(
                set_flag(set_flag(set_flag(set_flag(set_flag(F,
                   FLAG_S, r >= 128), FLAG_Z, r = 0), FLAG_H, v % 16 = 15),
                   FLAG_PV, v = 127), FLAG_N, FALSE),
                r)]

\* rotate/shift selected by y (bits 5..3 of a CB sub-opcode)
RotateBy(y, F, v) ==
    CASE y = 0 -> cpu_rlc(F, v)
      [] y = 1 -> cpu_rrc(F, v)
      [] y = 2 -> cpu_rl(F, v)
      [] y = 3 -> cpu_rr(F, v)
      [] y = 4 -> cpu_sla(F, v)
      [] y = 5 -> cpu_sra(F, v)
      [] y = 6 -> cpu_sll(F, v)
      [] OTHER -> cpu_srl(F, v)


\* ------------------------------------------------------------------------
\* The CPU state (struct Z80) and the reset state of main / cpu_reset_state
\* ------------------------------------------------------------------------
ResetCpu ==
    [reg_A |-> 0, reg_F |-> 0, reg_B |-> 0, reg_C |-> 0, reg_D |-> 0,
     reg_E |-> 0, reg_H |-> 0, reg_L |-> 0, reg_I |-> 0, reg_R |-> 0,
     reg_IX |-> 0, reg_IY |-> 0, reg_SP |-> 65535, reg_PC |-> 0,
     iff1 |-> 0, iff2 |-> 0, interruptMode |-> 1, ei_delay |-> 0,
     halted |-> 0]

\* the 8-bit register a 3-bit field r names (r # 6): B C D E H L - A
GetReg(c, r) ==
    CASE r = 0 -> c.reg_B [] r = 1 -> c.reg_C [] r = 2 -> c.reg_D
      [] r = 3 -> c.reg_E [] r = 4 -> c.reg_H [] r = 5 -> c.reg_L
      [] OTHER -> c.reg_A

SetReg(c, r, v) ==
    CASE r = 0 -> [c EXCEPT !.reg_B = v] [] r = 1 -> [c EXCEPT !.reg_C = v]
      [] r = 2 -> [c EXCEPT !.reg_D = v] [] r = 3 -> [c EXCEPT !.reg_E = v]
      [] r = 4 -> [c EXCEPT !.reg_H = v] [] r = 5 -> [c EXCEPT !.reg_L = v]
      [] OTHER -> [c EXCEPT !.reg_A = v]

AdvPC(c, n) == [c EXCEPT !.reg_PC = Word(c.reg_PC + n)]

cpu_push(c, mem, v) ==
    LET sp1 == Word(c.reg_SP - 1)
        sp2 == Word(c.reg_SP - 2)
    IN [cpu |-> [c EXCEPT !.reg_SP = sp2],
        memory |-> writeByte(writeByte(mem, sp1, Hi(v)), sp2, Lo(v))]

\* [v, cpu]: the popped word and the CPU with SP advanced by two
cpu_pop(c, mem) ==
    [v |-> MkWord(readByte(mem, c.reg_SP + 1), readByte(mem, c.reg_SP)),
     cpu |-> [c EXCEPT !.reg_SP = Word(c.reg_SP + 2)]]

\* ------------------------------------------------------------------------
\* CB-prefixed instructions.  Each sub-decoder returns
\*   [cpu, memory, t, sub]: t the T-states it reports, sub its sub-opcode
\* ------------------------------------------------------------------------
\* the value and flags a CB-table operation computes from its operand:
\* rotate/shift (x = 0), RES (x = 2), SET (x = 3)
cb_result(x, y, F, operand) ==
    CASE x = 0 -> RotateBy(y, F, operand)
      [] x = 2 -> [r |-> operand - Bit(operand, y) * (2 ^ y), F |-> F]
      [] OTHER -> [r |-> operand + (1 - Bit(operand, y)) * (2 ^ y), F |-> F]

\* c has PC past the sub-opcode op; res is cb_result of the operand
cb_finish(c, mem, op, operand, res) ==
    IF (op \div 64) % 4 = 1
    THEN [cpu |-> [c EXCEPT !.reg_F = cpu_bit(c.reg_F, operand, (op \div 8) % 8)],
          memory |-> mem, t |-> IF op % 8 = 6 THEN 8 ELSE 4, sub |-> op]
    ELSE IF op % 8 = 6
    THEN [cpu |-> [c EXCEPT !.reg_F = res.F],
          memory |-> writeByte(mem, get_HL(c), res.r), t |-> 11, sub |-> op]
    ELSE [cpu |-> SetReg([c EXCEPT !.reg_F = res.F], op % 8, res.r),
          memory |-> mem, t |-> 4, sub |-> op]

cb_exec(c, mem, op, operand) ==
    cb_finish(c, mem, op, operand,
              cb_result((op \div 64) % 4, (op \div 8) % 8, c.reg_F, operand))

cb_decode(c, mem, op) ==
    cb_exec(c, mem, op,
            IF op % 8 = 6 THEN readByte(mem, get_HL(c)) ELSE GetReg(c, op % 8))

cpu_cb_step(c0, mem) ==
    cb_decode(AdvPC(c0, 1), mem, readByte(mem, c0.reg_PC))

\* ------------------------------------------------------------------------
\* DDCB / FDCB instructions (index_reg is IX when is_ix, else IY)
\* ------------------------------------------------------------------------
\* the register copy of cpu_ddfd_cb_step (lines 4598-4604)
ddfd_cb_store(c, z, is_ix, result) ==
    CASE z = 0 -> [c EXCEPT !.reg_B = result]
      [] z = 1 -> [c EXCEPT !.reg_C = result]
      [] z = 2 -> [c EXCEPT !.reg_D = result]
      [] z = 3 -> [c EXCEPT !.reg_E = result]
      [] z = 4 -> IF is_ix THEN set_IXh(c, result) ELSE set_IYh(c, result)
      [] z = 5 -> IF is_ix THEN set_IXl(c, result) ELSE set_IYl(c, result)
      [] z = 7 -> [c EXCEPT !.reg_A = result]
      [] OTHER -> c

\* c has PC past the sub-opcode op; res is cb_result of the byte at addr
ddfd_cb_finish(c, mem, is_ix, op, addr, operand, res) ==
    IF (op \div 64) % 4 = 1
    THEN [cpu |-> [c EXCEPT !.reg_F = cpu_bit(c.reg_F, operand, (op \div 8) % 8)],
          memory |-> mem, t |-> 12, sub |-> op]
    ELSE IF op % 8 = 6
    THEN [cpu |-> [c EXCEPT !.reg_F = res.F],
          memory |-> writeByte(mem, addr, res.r), t |-> 15, sub |-> op]
    ELSE [cpu |-> ddfd_cb_store([c EXCEPT !.reg_F = res.F], op % 8, is_ix,
                                res.r),
          memory |-> writeByte(mem, addr, res.r), t |-> 12, sub |-> op]

ddfd_cb_exec(c, mem, is_ix, op, addr, operand) ==
    ddfd_cb_finish(c, mem, is_ix, op, addr, operand,
                   cb_result((op \div 64) % 4, (op \div 8) % 8, c.reg_F,
                             operand))

ddfd_cb_decode(c, mem, is_ix, op, addr) ==
    ddfd_cb_exec(c, mem, is_ix, op, addr, readByte(mem, addr))

cpu_ddfd_cb_step(c0, mem, is_ix) ==
    ddfd_cb_decode(AdvPC(c0, 2), mem, is_ix, readByte(mem, c0.reg_PC + 1),
                   Word((IF is_ix THEN c0.reg_IX ELSE c0.reg_IY)
                        + SignedByte(readByte(mem, c0.reg_PC))))

\* ------------------------------------------------------------------------
\* ED-prefixed instructions
\* ------------------------------------------------------------------------
\* the sub-opcodes cpu_ed_step has a case for; every other one takes default
EDImplemented ==
    ((64..126) \ {119}) \cup {160, 161, 162, 163, 168, 169, 170, 171}
                        \cup {176, 177, 178, 179, 184, 185, 186, 187}

\* the implemented sub-opcodes this model gives a meaning to
EDModelled ==
    {67, 83, 99, 115}                        \* LD (nn),BC/DE/HL/SP
    \cup {71, 79, 87, 95}                    \* LD I,A  LD R,A  LD A,I  LD A,R
    \cup {70, 78, 102, 110, 86, 118, 94, 126} \* IM 0/1/2
    \cup {69, 85, 93, 101, 109, 117, 125, 77} \* RETN / RETI
    \cup {160, 176, 168, 184}                \* LDI LDIR LDD LDDR
    \cup {65, 73, 81, 89, 97, 105, 113, 121} \* OUT (C),r  OUT (C),0
    \cup {163, 179, 171, 187}                \* OUTI OTIR OUTD OTDR

\* the flags LDI/LDIR/LDD/LDDR leave: S, Z, C kept, H = N = 0, P/V = (BC # 0),
\* bits 3 and 5 from A + the byte moved
ed_block_flags(F, A, value, bc) ==
    set_xy_flags(
        set_flag(set_flag(set_flag(BitAnd(F, FLAG_S + FLAG_Z + FLAG_C),
                                   FLAG_H, FALSE), FLAG_N, FALSE),
                 FLAG_PV, bc # 0),
        Byte(A + value))

ed_block_regs(c, hl, de, bc, dir, value) ==
    [set_BC(set_HL(set_DE(c, Word(de + dir)), Word(hl + dir)), bc)
        EXCEPT !.reg_F = ed_block_flags(c.reg_F, c.reg_A, value, bc)]

\* one byte moved from (HL) to (DE), HL and DE stepped by dir, BC decremented
ed_block_move(c, mem, dir) ==
    [cpu |-> ed_block_regs(c, get_HL(c), get_DE(c), Word(get_BC(c) - 1), dir,
                           readByte(mem, get_HL(c))),
     memory |-> writeByte(mem, get_DE(c), readByte(mem, get_HL(c)))]

\* a repeating block instruction that never rewinds PC
ed_block_norewind(m, repeat) ==
    [cpu |-> m.cpu, memory |-> m.memory,
     t |-> IF repeat /\ get_BC(m.cpu) # 0 THEN 17 ELSE 12]

\* the tail of LDIR/LDDR (repeat) and of LDI/LDD: PC -= 2 while BC # 0
ed_block_rewind(m, repeat) ==
    IF repeat /\ get_BC(m.cpu) # 0
    THEN [cpu |-> [m.cpu EXCEPT !.reg_PC = Word(@ - 2)],
          memory |-> m.memory, t |-> 17]
    ELSE [cpu |-> m.cpu, memory |-> m.memory, t |-> 12]

ed_block_load(c, mem, dir, repeat) ==
    ed_block_rewind(ed_block_move(c, mem, dir), repeat)

\* LD A,I and LD A,R
ed_ld_a_ir(c, v) ==
    [c EXCEPT !.reg_A = v,
              !.reg_F = set_flag(set_flag(set_flag(set_flags_szp(c.reg_F, v),
                            FLAG_H, FALSE), FLAG_N, FALSE),
                            FLAG_PV, c.iff2 # 0)]

\* RETN / RETI: pop PC, IFF1 := IFF2
ed_ret(p, mem) ==
    [cpu |-> [p.cpu EXCEPT !.reg_PC = p.v, !.iff1 = p.cpu.iff2],
     memory |-> mem, t |-> 10]

\* OUTI/OTIR/OUTD/OTDR after the io_write: B--, HL moves by dir, and the
\* repeating forms rewind PC while B is not zero
ed_block_out(c, mem, dir, repeat) ==
    IF repeat /\ Byte(c.reg_B - 1) # 0
    THEN [cpu |-> [set_HL([c EXCEPT !.reg_B = Byte(@ - 1)],
                          Word(get_HL(c) + dir))
                      EXCEPT !.reg_PC = Word(c.reg_PC - 2)],
          memory |-> mem, t |-> 13]
    ELSE [cpu |-> set_HL([c EXCEPT !.reg_B = Byte(@ - 1)],
                         Word(get_HL(c) + dir)),
          memory |-> mem, t |-> 8]

\* the switch of cpu_ed_step: c has PC past the sub-opcode op
ed_exec(c, mem, op) ==
    CASE op = 67 -> [cpu |-> AdvPC(c, 2), t |-> 16,
                     memory |-> writeWord(mem, readWord(mem, c.reg_PC),
                                          get_BC(c))]
      [] op = 83 -> [cpu |-> AdvPC(c, 2), t |-> 16,
                     memory |-> writeWord(mem, readWord(mem, c.reg_PC),
                                          get_DE(c))]
      [] op = 99 -> [cpu |-> AdvPC(c, 2), t |-> 16,
                     memory |-> writeWord(mem, readWord(mem, c.reg_PC),
                                          get_HL(c))]
      [] op = 115 -> [cpu |-> AdvPC(c, 2), t |-> 16,
                      memory |-> writeWord(mem, readWord(mem, c.reg_PC),
                                           c.reg_SP)]
      [] op \in {160, 176, 168, 184} ->
             ed_block_load(c, mem, IF op \in {160, 176} THEN 1 ELSE -1,
                           op \in {176, 184})
      [] op = 71 -> [cpu |-> [c EXCEPT !.reg_I = c.reg_A],
                     memory |-> mem, t |-> 5]
      [] op = 79 -> [cpu |-> [c EXCEPT !.reg_R = c.reg_A],
                     memory |-> mem, t |-> 5]
      [] op = 87 -> [cpu |-> ed_ld_a_ir(c, c.reg_I), memory |-> mem, t |-> 5]
      [] op = 95 -> [cpu |-> ed_ld_a_ir(c, c.reg_R), memory |-> mem, t |-> 5]
      [] op \in {69, 85, 93, 101, 109, 117, 125, 77} ->
             ed_ret(cpu_pop(c, mem), mem)
      [] op \in {70, 78, 102, 110} ->
             [cpu |-> [c EXCEPT !.interruptMode = 0], memory |-> mem, t |-> 4]
      [] op \in {86, 118} ->
             [cpu |-> [c EXCEPT !.interruptMode = 1], memory |-> mem, t |-> 4]
      [] op \in {94, 126} ->
             [cpu |-> [c EXCEPT !.interruptMode = 2], memory |-> mem, t |-> 4]
      [] op \in {65, 73, 81, 89, 97, 105, 113, 121} ->
             [cpu |-> c, memory |-> mem, t |-> 8]
      [] op \in {163, 179, 171, 187} ->
             ed_block_out(c, mem, IF op \in {163, 179} THEN 1 ELSE -1,
                          op \in {179, 187})
      \* default: return 4
      [] OTHER -> [cpu |-> c, memory |-> mem, t |-> 4]

ed_decode(c, mem, op) == [sub |-> op] @@ ed_exec(c, mem, op)

cpu_ed_step(c0, mem) ==
    ed_decode(AdvPC(c0, 1), mem, readByte(mem, c0.reg_PC))

\* ------------------------------------------------------------------------
\* The R register
\* ------------------------------------------------------------------------
\* (cpu->reg_R + 1) | (cpu->reg_R & 0x80), stored back into a uint8_t
IncR(r) == Byte(BitOr(r + 1, BitAnd(r, 128)))

\* ------------------------------------------------------------------------
\* Maskable interrupt acceptance: [cpu, memory, t]
\* ------------------------------------------------------------------------
\* a timing that reports the IM 0/1 cost in every mode
interrupt_t_states_13(mode) == 13

interrupt_t_states(mode) == IF mode = 2 THEN 19 ELSE 13

\* the handler address: 0x0038 in IM 0/1, the table entry in IM 2
interrupt_vector(c, mem, data_bus) ==
    IF c.interruptMode = 2 THEN readWord(mem, MkWord(c.reg_I, data_bus))
    ELSE 56

\* a halted CPU leaves HALT: PC steps past it
interrupt_wake(c) ==
    IF c.halted # 0 THEN [AdvPC(c, 1) EXCEPT !.halted = 0] ELSE c

\* p is the push of the interrupted PC
interrupt_jump(p, vector, t_states) ==
    [cpu |-> [p.cpu EXCEPT !.reg_PC = vector], memory |-> p.memory,
     t |-> t_states]

\* c is past interrupt_wake; the vector is read before the push
interrupt_accept(c, mem, data_bus) ==
    interrupt_jump(
        cpu_push([c EXCEPT !.iff1 = 0, !.iff2 = 0, !.reg_R = IncR(c.reg_R)],
                 mem, c.reg_PC),
        interrupt_vector(c, mem, data_bus),
        interrupt_t_states(c.interruptMode))

cpu_interrupt(c0, mem, data_bus) ==
    interrupt_accept(interrupt_wake(c0), mem, data_bus)

\* ------------------------------------------------------------------------
\* cpu_step
\* ------------------------------------------------------------------------
\* main-table opcodes this model gives a meaning to (cpu_step has a case for
\* every main-table opcode; the others are outside the model)
\* the opcodes the switch of cpu_step has a case for: all but DD and FD,
\* which the prefix run consumes before the switch
MainImplemented == (0..255) \ {221, 253}

RSTOpcodes == {199, 207, 215, 223, 231, 239, 247, 255}
StoreOpcodes == {112, 113, 114, 115, 116, 117, 119}
Modelled ==
    {0, 62, 6, 1, 17, 33, 49, 54, 50, 34, 52, 197, 213, 229, 245, 205,
     227, 195, 201, 243, 251, 118, 203, 237, 211}
    \cup RSTOpcodes \cup StoreOpcodes

\* a halted branch that keeps fetching
cpu_step_halted_fetching(c, mem) ==
    [cpu |-> [AdvPC(c, 1) EXCEPT !.reg_R = IncR(c.reg_R)],
     memory |-> mem, t |-> 4, op |-> readByte(mem, c.reg_PC), sub |-> -1,
     prefix |-> 0, nprefix |-> 0, modelled |-> TRUE, abort |-> FALSE]

\* the halted branch of cpu_step: no fetch, R incremented, 4 T-states
cpu_step_halted(c, mem) ==
    [cpu |-> [c EXCEPT !.reg_R = IncR(c.reg_R)], memory |-> mem, t |-> 4,
     op |-> -1, sub |-> -1, prefix |-> 0, nprefix |-> 0, modelled |-> TRUE,
     abort |-> FALSE]

\* the first opcode fetch (lines 4650-4652)
fetch_first(c, mem) ==
    [cpu |-> [AdvPC(c, 1) EXCEPT !.reg_R = IncR(c.reg_R)],
     opcode |-> readByte(mem, c.reg_PC),
     prefix |-> 0, nprefix |-> 0, t |-> 4]

\* the DD/FD prefix run (lines 4654-4656): the last prefix wins
RECURSIVE fetch_prefixes(_, _)
fetch_prefixes(f, mem) ==
    IF f.opcode \in {221, 253}
    THEN fetch_prefixes(
           [cpu |-> [AdvPC(f.cpu, 1) EXCEPT !.reg_R = Byte(f.cpu.reg_R + 1)],
            opcode |-> readByte(mem, f.cpu.reg_PC),
            prefix |-> IF f.opcode = 221 THEN 1 ELSE 2,
            nprefix |-> f.nprefix + 1,
            t |-> f.t + 4], mem)
    ELSE f

Idx(c, prefix) == IF prefix = 1 THEN c.reg_IX ELSE c.reg_IY

\* the switch of cpu_step: c has PC past the opcode, t counts the fetches
exec_main(c, mem, opcode, prefix, t) ==
    LET n  == readByte(mem, c.reg_PC)
        nn == readWord(mem, c.reg_PC)
        ixd == Word(Idx(c, prefix) + SignedByte(readByte(mem, c.reg_PC)))
        hl == get_HL(c)
        cur == IF prefix = 0 THEN get_HL(c) ELSE Idx(c, prefix)
        setcur(cc, v) == IF prefix = 1 THEN [cc EXCEPT !.reg_IX = v]
                         ELSE IF prefix = 2 THEN [cc EXCEPT !.reg_IY = v]
                         ELSE set_HL(cc, v)
        plain(cc, mm, dt) == [cpu |-> cc, memory |-> mm, t |-> t + dt,
                              sub |-> -1]
        pushed(p, dt) == plain(p.cpu, p.memory, dt)
        jumped(p, target, dt) ==
            plain([p.cpu EXCEPT !.reg_PC = target], p.memory, dt)
        incremented(cc, addr, i, dt) ==
            plain([cc EXCEPT !.reg_F = i.F], writeByte(mem, addr, i.r), dt)
        returned(p, dt) == plain([p.cpu EXCEPT !.reg_PC = p.v], mem, dt)
    IN CASE opcode = 0 -> plain(c, mem, 0)
         [] opcode = 62 -> plain([AdvPC(c, 1) EXCEPT !.reg_A = n], mem, 3)
         [] opcode = 6  -> plain([AdvPC(c, 1) EXCEPT !.reg_B = n], mem, 3)
         [] opcode = 1  -> plain(set_BC(AdvPC(c, 2), nn), mem, 6)
         [] opcode = 17 -> plain(set_DE(AdvPC(c, 2), nn), mem, 6)
         [] opcode = 33 -> plain(setcur(AdvPC(c, 2), nn), mem,
                                 IF prefix # 0 THEN 10 ELSE 6)
         [] opcode = 49 -> plain([AdvPC(c, 2) EXCEPT !.reg_SP = nn], mem, 6)
         [] opcode \in StoreOpcodes ->
              IF prefix # 0
              THEN plain(AdvPC(c, 1),
                         writeByte(mem, ixd, GetReg(c, opcode % 8)), 15)
              ELSE plain(c, writeByte(mem, hl, GetReg(c, opcode % 8)), 3)
         [] opcode = 54 ->
              IF prefix # 0
              THEN plain(AdvPC(c, 2),
                         writeByte(mem, ixd, readByte(mem, c.reg_PC + 1)), 15)
              ELSE plain(AdvPC(c, 1), writeByte(mem, hl, n), 6)
         [] opcode = 50 -> plain(AdvPC(c, 2), writeByte(mem, nn, c.reg_A), 9)
         [] opcode = 34 -> plain(AdvPC(c, 2), writeWord(mem, nn, cur),
                                 IF prefix # 0 THEN 16 ELSE 12)
         [] opcode = 52 ->
              IF prefix # 0
              THEN incremented(AdvPC(c, 1), ixd,
                               cpu_inc(c.reg_F, readByte(mem, ixd)), 19)
              ELSE incremented(c, hl, cpu_inc(c.reg_F, readByte(mem, hl)), 7)
         [] opcode = 197 -> pushed(cpu_push(c, mem, get_BC(c)), 7)
         [] opcode = 213 -> pushed(cpu_push(c, mem, get_DE(c)), 7)
         [] opcode = 229 -> pushed(cpu_push(c, mem, cur),
                                   IF prefix # 0 THEN 11 ELSE 7)
         [] opcode = 245 -> pushed(cpu_push(c, mem, get_AF(c)), 7)
         [] opcode = 205 ->
              jumped(cpu_push(c, mem, Word(c.reg_PC + 2)), nn, 13)
         [] opcode \in RSTOpcodes ->
              jumped(cpu_push(c, mem, c.reg_PC), opcode - 199, 7)
         [] opcode = 227 ->
              plain(setcur(c, readWord(mem, c.reg_SP)),
                    writeWord(mem, c.reg_SP, cur),
                    IF prefix # 0 THEN 19 ELSE 15)
         [] opcode = 195 -> plain([c EXCEPT !.reg_PC = nn], mem, 6)
         [] opcode = 201 -> returned(cpu_pop(c, mem), 6)
         [] opcode = 243 ->
              plain([c EXCEPT !.iff1 = 0, !.iff2 = 0, !.ei_delay = 0], mem, 0)
         [] opcode = 251 -> plain([c EXCEPT !.ei_delay = 1], mem, 0)
         [] opcode = 118 -> plain([c EXCEPT !.halted = 1], mem, 0)
         [] opcode = 203 ->
              IF prefix = 1
              THEN [cpu_ddfd_cb_step(c, mem, TRUE) EXCEPT !.t = t + @]
              ELSE IF prefix = 2
              THEN [cpu_ddfd_cb_step(c, mem, FALSE) EXCEPT !.t = t + @]
              ELSE [cpu_cb_step(c, mem) EXCEPT !.t = t + @]
         [] opcode = 237 -> [cpu_ed_step(c, mem) EXCEPT !.t = t + @]
         [] opcode = 211 -> plain(AdvPC(c, 1), mem, 7)
         [] OTHER -> plain(c, mem, 0)

\* what a call returns: [cpu, memory, t, op, sub, prefix, nprefix, modelled,
\* abort]; t is the return value, op the opcode after the prefix run (-1:
\* none fetched), sub the CB/ED sub-opcode (-1: none), nprefix the number of
\* DD/FD bytes fetched, abort whether the default of the switch was taken
\* (the diagnostic and exit(1) of line 4836)
step_result(f, e) ==
    [cpu |-> e.cpu, memory |-> e.memory, t |-> e.t, op |-> f.opcode,
     sub |-> e.sub, prefix |-> f.prefix, nprefix |-> f.nprefix,
     modelled |-> /\ f.opcode \in Modelled
                  /\ (f.opcode = 237 =>
                        \/ e.sub \in EDModelled
                        \/ e.sub \notin EDImplemented),
     abort |-> f.opcode \notin MainImplemented]

step_exec(f, mem) ==
    step_result(f, exec_main(f.cpu, mem, f.opcode, f.prefix, f.t))

\* the pending EI takes effect at the top of the step (line 4643)
step_ei(c) ==
    IF c.ei_delay # 0 THEN [c EXCEPT !.iff1 = 1, !.iff2 = 1, !.ei_delay = 0]
    ELSE c

step_run(c, mem) ==
    IF c.halted # 0 THEN cpu_step_halted(c, mem)
    ELSE step_exec(fetch_prefixes(fetch_first(c, mem), mem), mem)

cpu_step(c0, mem) == step_run(step_ei(c0), mem)

\* the io_write calls of cpu_ed_step, as [port, value, progress]: c has PC
\* on the sub-opcode, t is cpu_step's t_states when cpu_ed_step is called
ed_writes(c, mem, op, t) ==
    IF op \in {65, 73, 81, 89, 97, 105, 121}
    THEN <<[port |-> get_BC(c), value |-> GetReg(c, (op - 65) \div 8),
            progress |-> t]>>
    ELSE IF op = 113
    THEN <<[port |-> get_BC(c), value |-> 0, progress |-> t]>>
    ELSE IF op \in {163, 179, 171, 187}
    THEN <<[port |-> get_BC(c), value |-> readByte(mem, get_HL(c)),
            progress |-> t]>>
    ELSE <<>>

\* a step that reports the whole instruction as progress at its write
step_writes_late(f, mem) ==
    IF f.opcode = 211
    THEN <<[port |-> MkWord(f.cpu.reg_A, readByte(mem, f.cpu.reg_PC)),
            value |-> f.cpu.reg_A, progress |-> f.t + 7]>>
    ELSE IF f.opcode = 237
    THEN ed_writes(f.cpu, mem, readByte(mem, f.cpu.reg_PC), f.t + 8)
    ELSE <<>>

\* the io_write calls of the instruction fetched as f: progress is
\* *ula_instruction_progress_ptr at the call, the T-states of the fetches
step_writes(f, mem) ==
    IF f.opcode = 211
    THEN <<[port |-> MkWord(f.cpu.reg_A, readByte(mem, f.cpu.reg_PC)),
            value |-> f.cpu.reg_A, progress |-> f.t]>>
    ELSE IF f.opcode = 237
    THEN ed_writes(f.cpu, mem, readByte(mem, f.cpu.reg_PC), f.t)
    ELSE <<>>

\* the io_write calls of cpu_step: a halted CPU makes none
cpu_step_writes(c0, mem) ==
    IF step_ei(c0).halted # 0 THEN <<>>
    ELSE step_writes(fetch_prefixes(fetch_first(step_ei(c0), mem), mem), mem)

\* ------------------------------------------------------------------------
\* Tape playback (TapePlaybackState, tape_ear_state, tape_input_enabled).
\* A tape state t bundles the globals the tape functions read and write:
\*   t.pb       tape_playback
\*   t.ear      tape_ear_state
\*   t.enabled  tape_input_enabled
\*   t.rec      tape_recorder
\*   t.shared   tape_wav_shared_position_tstates
\*   t.edges    the EAR toggles made by the call in progress, in order
\* ------------------------------------------------------------------------
TAPE_PILOT_PULSE_TSTATES == 2168
TAPE_SYNC_FIRST_PULSE_TSTATES == 667
TAPE_SYNC_SECOND_PULSE_TSTATES == 735
TAPE_BIT0_PULSE_TSTATES == 855
TAPE_BIT1_PULSE_TSTATES == 1710
TAPE_HEADER_PILOT_COUNT == 8063
TAPE_DATA_PILOT_COUNT == 3223
CPU_CLOCK_HZ == 3500000

\* (uint64_t)(x + 0.5) for the non-negative rational num / den
RoundHalfUp(num, den) == (2 * num + den) \div (2 * den)

\* (pause_ms / 1000.0) * CPU_CLOCK_HZ is a whole number of T-states
tape_pause_to_tstates(pause_ms) ==
    IF pause_ms = 0 THEN 0
    ELSE RoundHalfUp(pause_ms * (CPU_CLOCK_HZ \div 1000), 1)

tape_waveform_reset(w) ==
    [w EXCEPT !.pulses = <<>>, !.initial_level = 1, !.sample_rate = 0]

\* the test every playback function makes before choosing its branch
use_waveform(pb) ==
    pb.format = "WAV"
    \/ (pb.use_waveform_playback # 0 /\ Len(pb.waveform.pulses) > 0)

tape_reset_playback(t) ==
    [t EXCEPT
       !.pb = [@ EXCEPT
                 !.current_block = 0,
                 !.phase = "IDLE",
                 !.pilot_pulses_remaining = 0,
                 !.data_byte_index = 0,
                 !.data_bit_mask = 128,
                 !.data_pulse_half = 0,
                 !.next_transition_tstate = 0,
                 !.pause_end_tstate = 0,
                 !.playing = 0,
                 !.waveform_index = 0,
                 !.paused_transition_remaining = 0,
                 !.paused_pause_remaining = 0,
                 !.position_tstates = 0,
                 !.position_start_tstate = 0,
                 !.last_transition_tstate = 0,
                 !.level = IF use_waveform(t.pb)
                           THEN (IF t.pb.waveform.initial_level # 0 THEN 1 ELSE 0)
                           ELSE 1],
       !.shared = IF t.pb.format = "WAV" THEN 0 ELSE @,
       !.ear = IF use_waveform(t.pb)
               THEN (IF t.pb.waveform.initial_level # 0 THEN 1 ELSE 0)
               ELSE 1]

\* block_index counts from 0 as in the source; image.blocks[block_index] is
\* pb.image[block_index + 1]
tape_current_block_pilot_count(pb) ==
    IF pb.current_block >= Len(pb.image) THEN TAPE_DATA_PILOT_COUNT
    ELSE IF Len(pb.image[pb.current_block + 1].data) > 0
            /\ pb.image[pb.current_block + 1].data[1] = 0
         THEN TAPE_HEADER_PILOT_COUNT
         ELSE TAPE_DATA_PILOT_COUNT

\* tape_begin_block; the caller tests block_index < image.count, which is
\* the function's return value
tape_begin_block(t, block_index, start_time) ==
    IF block_index >= Len(t.pb.image) THEN t
    ELSE [t EXCEPT
            !.pb = [@ EXCEPT
                      !.current_block = block_index,
                      !.pilot_pulses_remaining =
                          tape_current_block_pilot_count(
                              [t.pb EXCEPT !.current_block = block_index]),
                      !.data_byte_index = 0,
                      !.data_bit_mask = 128,
                      !.data_pulse_half = 0,
                      !.phase = "PILOT",
                      !.level = 1,
                      !.next_transition_tstate =
                          start_time + TAPE_PILOT_PULSE_TSTATES,
                      !.playing = 1,
                      !.last_transition_tstate = start_time,
                      !.paused_transition_remaining = 0,
                      !.paused_pause_remaining = 0],
            !.ear = 1]

\* the tail of tape_start_playback, after the reset
tape_start_after_reset(t, start_time) ==
    IF use_waveform(t.pb)
    THEN IF Len(t.pb.waveform.pulses) = 0 THEN t
         ELSE [t EXCEPT
                 !.pb = [@ EXCEPT
                           !.waveform_index = 0,
                           !.level = IF t.pb.waveform.initial_level # 0
                                     THEN 1 ELSE 0,
                           !.playing = 1,
                           !.next_transition_tstate =
                               start_time + t.pb.waveform.pulses[1],
                           !.paused_transition_remaining = 0,
                           !.paused_pause_remaining = 0],
                 !.ear = IF t.pb.waveform.initial_level # 0 THEN 1 ELSE 0]
    ELSE IF Len(t.pb.image) = 0 THEN t
         ELSE tape_begin_block(t, 0, start_time)

tape_start_stamp(t, start_time) ==
    [t EXCEPT !.pb = [@ EXCEPT !.position_start_tstate = start_time,
                               !.last_transition_tstate = start_time]]

tape_start_playback(t, start_time) ==
    tape_start_after_reset(
        tape_start_stamp(tape_reset_playback(t), start_time), start_time)

tape_playback_accumulate_elapsed(pb, stop_t_state) ==
    IF stop_t_state > pb.position_start_tstate
    THEN [pb EXCEPT !.position_tstates =
                        @ + (stop_t_state - pb.position_start_tstate),
                    !.position_start_tstate = stop_t_state]
    ELSE pb

tape_playback_elapsed_tstates(pb, current_t_state) ==
    IF pb.playing # 0 /\ current_t_state > pb.position_start_tstate
    THEN pb.position_tstates + (current_t_state - pb.position_start_tstate)
    ELSE pb.position_tstates

\* tape_pause_playback once the remaining times are stored
tape_pause_finish(t, pb, current_t_state) ==
    [t EXCEPT
       !.pb = [pb EXCEPT !.last_transition_tstate = current_t_state,
                         !.playing = 0],
       !.shared = IF use_waveform(pb) THEN pb.position_tstates ELSE @]

tape_pause_playback(t, current_t_state) ==
    IF t.pb.playing = 0 THEN t
    ELSE tape_pause_finish(t,
            tape_playback_accumulate_elapsed(
                [t.pb EXCEPT
                   !.paused_transition_remaining =
                       IF t.pb.next_transition_tstate > current_t_state
                       THEN t.pb.next_transition_tstate - current_t_state
                       ELSE 0,
                   !.paused_pause_remaining =
                       IF t.pb.phase = "PAUSE"
                          /\ t.pb.pause_end_tstate > current_t_state
                       THEN t.pb.pause_end_tstate - current_t_state
                       ELSE 0],
                current_t_state),
            current_t_state)

\* the common tail of tape_resume_playback (lines 1670-1679)
tape_resume_finish(t, current_t_state) ==
    [t EXCEPT
       !.pb = [@ EXCEPT
                 !.position_start_tstate =
                     IF t.pb.playing # 0 THEN current_t_state ELSE @,
                 !.last_transition_tstate =
                     IF t.pb.playing # 0 THEN current_t_state ELSE @,
                 !.paused_transition_remaining = 0,
                 !.paused_pause_remaining = 0],
       !.ear = t.pb.level]

tape_resume_playback(t, current_t_state) ==
    IF t.pb.playing # 0 THEN t
    ELSE IF use_waveform(t.pb)
    THEN IF Len(t.pb.waveform.pulses) = 0
            \/ t.pb.waveform_index >= Len(t.pb.waveform.pulses)
         THEN t
         ELSE tape_resume_finish(
                [t EXCEPT !.pb = [@ EXCEPT
                    !.next_transition_tstate =
                        current_t_state + t.pb.paused_transition_remaining,
                    !.playing = 1]],
                current_t_state)
    ELSE IF t.pb.phase = "IDLE" THEN tape_start_playback(t, current_t_state)
    ELSE IF t.pb.phase = "DONE" THEN t
    ELSE tape_resume_finish(
            [t EXCEPT !.pb = [@ EXCEPT
                !.next_transition_tstate =
                    current_t_state + t.pb.paused_transition_remaining,
                !.pause_end_tstate =
                    IF t.pb.phase = "PAUSE"
                    THEN current_t_state + t.pb.paused_pause_remaining
                    ELSE @,
                !.playing = 1]],
            current_t_state)

tape_rewind_playback(t) == tape_reset_playback(t)

\* the larger of the scheduled transition and the last one made
transition_time(pb) ==
    IF pb.next_transition_tstate < pb.last_transition_tstate
    THEN pb.last_transition_tstate
    ELSE pb.next_transition_tstate

\* the EAR toggle both branches of tape_update make at a transition
tape_toggle(t, time) ==
    [t EXCEPT
       !.pb = [@ EXCEPT !.level = IF @ # 0 THEN 0 ELSE 1,
                        !.last_transition_tstate = time],
       !.ear = IF t.pb.level # 0 THEN 0 ELSE 1,
       !.edges = Append(@, [time |-> time,
                            level |-> IF t.pb.level # 0 THEN 0 ELSE 1,
                            phase |-> t.pb.phase,
                            block |-> t.pb.current_block])]

\* waveform playback: the body of the while loop after the toggle
tape_waveform_advance(t, time) ==
    IF t.pb.waveform_index + 1 < Len(t.pb.waveform.pulses)
    THEN [t EXCEPT !.pb = [@ EXCEPT
             !.waveform_index = @ + 1,
             !.next_transition_tstate =
                 time + t.pb.waveform.pulses[t.pb.waveform_index + 2]]]
    ELSE [t EXCEPT
            !.pb = tape_playback_accumulate_elapsed(
                       [t.pb EXCEPT !.waveform_index = @ + 1,
                                    !.playing = 0], time),
            !.shared = IF t.pb.format = "WAV"
                       THEN tape_playback_accumulate_elapsed(
                                t.pb, time).position_tstates
                       ELSE @]

RECURSIVE tape_update_waveform(_, _)
tape_update_waveform(t, current_t_state) ==
    IF t.pb.playing # 0
       /\ t.pb.waveform_index < Len(t.pb.waveform.pulses)
       /\ current_t_state >= t.pb.next_transition_tstate
    THEN tape_update_waveform(
             tape_waveform_advance(tape_toggle(t, transition_time(t.pb)),
                                   transition_time(t.pb)),
             current_t_state)
    ELSE t

tape_current_data_bit(pb) ==
    IF pb.data_byte_index >= Len(pb.image[pb.current_block + 1].data) THEN 0
    ELSE IF BitAnd(pb.image[pb.current_block + 1].data[pb.data_byte_index + 1],
                   pb.data_bit_mask) # 0
         THEN 1 ELSE 0

tape_bit_duration(bit) ==
    IF bit # 0 THEN TAPE_BIT1_PULSE_TSTATES ELSE TAPE_BIT0_PULSE_TSTATES

tape_block_end(t) ==
    [t EXCEPT !.pb = [@ EXCEPT !.phase = "DONE", !.playing = 0], !.ear = 1]

\* tape_finish_block_playback after phase, pause end and block counter are
\* set: a block with no pause starts its successor at once
tape_finish_block_next(t, pause) ==
    IF pause # 0 THEN t
    ELSE IF t.pb.current_block < Len(t.pb.image)
         THEN tape_begin_block(t, t.pb.current_block, t.pb.pause_end_tstate)
         ELSE tape_block_end(t)

tape_finish_block_pause(t, pause) ==
    tape_finish_block_next(
        [t EXCEPT !.pb = [@ EXCEPT
            !.phase = "PAUSE",
            !.pause_end_tstate = t.pb.next_transition_tstate + pause,
            !.current_block = @ + 1,
            !.data_bit_mask = 128]],
        pause)

tape_finish_block_playback(t) ==
    IF t.pb.current_block < Len(t.pb.image)
    THEN tape_finish_block_pause(t,
             tape_pause_to_tstates(t.pb.image[t.pb.current_block + 1].pause_ms))
    ELSE tape_block_end(t)

\* true when the current block has no data to play
tape_block_empty(pb) ==
    pb.current_block >= Len(pb.image)
    \/ Len(pb.image[pb.current_block + 1].data) = 0

\* case TAPE_PHASE_DATA once the next transition is scheduled
tape_data_half(t) ==
    IF t.pb.data_pulse_half = 0
    THEN [t EXCEPT !.pb.data_pulse_half = 1]
    ELSE IF t.pb.data_bit_mask \div 2 # 0
    THEN [t EXCEPT !.pb = [@ EXCEPT !.data_pulse_half = 0,
                                    !.data_bit_mask = @ \div 2]]
    ELSE IF t.pb.data_byte_index + 1
            >= Len(t.pb.image[t.pb.current_block + 1].data)
    THEN tape_finish_block_playback(
             [t EXCEPT !.pb = [@ EXCEPT !.data_pulse_half = 0,
                                        !.data_bit_mask = 128,
                                        !.data_byte_index = @ + 1]])
    ELSE [t EXCEPT !.pb = [@ EXCEPT !.data_pulse_half = 0,
                                    !.data_bit_mask = 128,
                                    !.data_byte_index = @ + 1]]

\* the switch on the phase, after the toggle at time
tape_block_switch(t, time) ==
    CASE t.pb.phase = "PILOT" ->
           IF t.pb.pilot_pulses_remaining - 1 > 0
           THEN [t EXCEPT !.pb = [@ EXCEPT
                    !.pilot_pulses_remaining = @ - 1,
                    !.next_transition_tstate =
                        time + TAPE_PILOT_PULSE_TSTATES]]
           ELSE [t EXCEPT !.pb = [@ EXCEPT
                    !.pilot_pulses_remaining = @ - 1,
                    !.phase = "SYNC1",
                    !.next_transition_tstate =
                        time + TAPE_SYNC_FIRST_PULSE_TSTATES]]
      [] t.pb.phase = "SYNC1" ->
           [t EXCEPT !.pb = [@ EXCEPT
               !.phase = "SYNC2",
               !.next_transition_tstate =
                   time + TAPE_SYNC_SECOND_PULSE_TSTATES]]
      [] t.pb.phase = "SYNC2" ->
           IF tape_block_empty(t.pb)
           THEN tape_finish_block_playback(
                    [t EXCEPT !.pb = [@ EXCEPT !.phase = "DATA",
                                               !.data_pulse_half = 0]])
           ELSE [t EXCEPT !.pb = [@ EXCEPT
                    !.phase = "DATA",
                    !.next_transition_tstate =
                        time + tape_bit_duration(tape_current_data_bit(t.pb)),
                    !.data_pulse_half = 1]]
      [] t.pb.phase = "DATA" ->
           IF tape_block_empty(t.pb)
           THEN tape_finish_block_playback(t)
           ELSE tape_data_half(
                    [t EXCEPT !.pb.next_transition_tstate =
                        time + tape_bit_duration(tape_current_data_bit(t.pb))])
      [] OTHER -> t

\* the stop time tape_update books when the switch ended playback
tape_block_stop_time(pb, time) ==
    IF pb.pause_end_tstate >= time THEN pb.pause_end_tstate
    ELSE IF pb.next_transition_tstate >= time THEN pb.next_transition_tstate
    ELSE time

tape_block_stopped(t, stop_time) ==
    [t EXCEPT
       !.pb = [tape_playback_accumulate_elapsed(t.pb, stop_time)
                 EXCEPT !.last_transition_tstate = stop_time],
       !.shared = IF t.pb.format = "WAV"
                  THEN tape_playback_accumulate_elapsed(
                           t.pb, stop_time).position_tstates
                  ELSE @]

tape_block_after(t, time) ==
    IF t.pb.playing = 0
    THEN tape_block_stopped(t, tape_block_stop_time(t.pb, time))
    ELSE t

\* the end of the tape found in the PAUSE phase
tape_pause_done(t) ==
    tape_block_stopped(tape_block_end(t), t.pb.pause_end_tstate)

RECURSIVE tape_update_block(_, _)
tape_update_block(t, current_t_state) ==
    IF t.pb.playing = 0 THEN t
    ELSE IF t.pb.phase = "PAUSE"
    THEN IF current_t_state < t.pb.pause_end_tstate THEN t
         ELSE IF t.pb.current_block >= Len(t.pb.image)
         THEN tape_pause_done(t)
         ELSE tape_update_block(
                  tape_begin_block(t, t.pb.current_block,
                                   t.pb.pause_end_tstate),
                  current_t_state)
    ELSE IF t.pb.phase \in {"DONE", "IDLE"} THEN t
    ELSE IF current_t_state < t.pb.next_transition_tstate THEN t
    ELSE tape_update_block(
             tape_block_after(
                 tape_block_switch(tape_toggle(t, transition_time(t.pb)),
                                   transition_time(t.pb)),
                 transition_time(t.pb)),
             current_t_state)

tape_update(t, current_t_state) ==
    IF t.enabled = 0 \/ t.pb.playing = 0 THEN t
    ELSE IF use_waveform(t.pb) THEN tape_update_waveform(t, current_t_state)
    ELSE tape_update_block(t, current_t_state)

\* the loop of tape_wav_seek_playback that finds the pulse holding target
RECURSIVE wav_seek_index(_, _, _, _)
wav_seek_index(pulses, target, index, accumulated) ==
    IF index >= Len(pulses)
    THEN [index |-> index, accumulated |-> accumulated]
    ELSE IF pulses[index + 1] = 0
    THEN wav_seek_index(pulses, target, index + 1, accumulated)
    ELSE IF target < accumulated + pulses[index + 1]
    THEN [index |-> index, accumulated |-> accumulated]
    ELSE wav_seek_index(pulses, target, index + 1,
                        accumulated + pulses[index + 1])

RECURSIVE SumPulses(_, _)
SumPulses(pulses, n) ==
    IF n = 0 THEN 0 ELSE pulses[n] + SumPulses(pulses, n - 1)

\* tape_wav_seek_playback once the pulse at the target is known
wav_seek_place(t, target, at, initial_level) ==
    [t EXCEPT
       !.pb = [@ EXCEPT
          !.playing = 0,
          !.paused_pause_remaining = 0,
          !.next_transition_tstate = 0,
          !.position_tstates = target,
          !.position_start_tstate = target,
          !.last_transition_tstate = target,
          !.waveform_index = at.index,
          !.level = IF at.index % 2 = 1 THEN 1 - initial_level
                    ELSE initial_level,
          !.paused_transition_remaining =
              IF at.index < Len(t.pb.waveform.pulses)
              THEN t.pb.waveform.pulses[at.index + 1]
                   - (target - at.accumulated)
              ELSE 0],
       !.ear = IF at.index % 2 = 1 THEN 1 - initial_level ELSE initial_level,
       !.shared = target]

tape_wav_seek_playback(t, position_tstates) ==
    IF t.pb.format # "WAV" THEN t
    ELSE IF Len(t.pb.waveform.pulses) = 0
    THEN [t EXCEPT
            !.pb = [@ EXCEPT
               !.playing = 0,
               !.paused_transition_remaining = 0,
               !.paused_pause_remaining = 0,
               !.waveform_index = 0,
               !.next_transition_tstate = 0,
               !.last_transition_tstate = 0,
               !.position_tstates = 0,
               !.position_start_tstate = 0,
               !.level = IF t.pb.waveform.initial_level # 0 THEN 1 ELSE 0],
            !.ear = IF t.pb.waveform.initial_level # 0 THEN 1 ELSE 0,
            !.shared = 0]
    ELSE wav_seek_place(t,
            IF position_tstates
                 > SumPulses(t.pb.waveform.pulses, Len(t.pb.waveform.pulses))
            THEN SumPulses(t.pb.waveform.pulses, Len(t.pb.waveform.pulses))
            ELSE position_tstates,
            wav_seek_index(t.pb.waveform.pulses,
                IF position_tstates
                     > SumPulses(t.pb.waveform.pulses,
                                 Len(t.pb.waveform.pulses))
                THEN SumPulses(t.pb.waveform.pulses,
                               Len(t.pb.waveform.pulses))
                ELSE position_tstates,
                0, 0),
            IF t.pb.waveform.initial_level # 0 THEN 1 ELSE 0)

\* ------------------------------------------------------------------------
\* The recorder, as far as it decides what the deck keys do to playback.
\* What the file system and the captured audio decide is an input:
\*   captured  the forced tape_recorder_update stored audio
\*   written   tape_recorder_write_output succeeded
\*   reloaded  the waveform tape_load_wav read back, or LoadFailed
\* ------------------------------------------------------------------------
LoadFailed == [pulses |-> <<>>, initial_level |-> 1, sample_rate |-> 0,
               failed |-> TRUE]

NoRecorder ==
    [enabled |-> 0, output_format |-> "NONE", output_is_input |-> FALSE,
     recording |-> 0, session_dirty |-> 0, position_tstates |-> 0,
     position_start_tstate |-> 0]

tape_recorder_enable(rec, format, is_input) ==
    [rec EXCEPT !.enabled = 1, !.output_format = format,
                !.output_is_input = is_input, !.recording = 0,
                !.session_dirty = 0, !.position_tstates = 0,
                !.position_start_tstate = 0]

\* the recording branch of tape_recorder_stop_session (lines 3013-3023)
recorder_stop_recording(rec, current_t_state, captured) ==
    IF rec.recording = 0 THEN rec
    ELSE [rec EXCEPT
            !.recording = 0,
            !.session_dirty = IF captured THEN 1 ELSE @,
            !.position_tstates =
                IF current_t_state > rec.position_start_tstate
                THEN @ + (current_t_state - rec.position_start_tstate)
                ELSE @,
            !.position_start_tstate = current_t_state]

\* lines 3025-3029
recorder_finalize(rec, finalize_output, written) ==
    IF finalize_output /\ rec.session_dirty # 0 /\ written
    THEN [rec EXCEPT !.session_dirty = 0]
    ELSE rec

\* lines 3041-3043: the seek goes to the shared head position, which the
\* load and the reset have just set to 0
recorder_reload_seek(t) ==
    [tape_wav_seek_playback(t, t.shared) EXCEPT !.enabled = 1]

\* lines 3031-3046: a WAV recorder writing the input file reloads it
recorder_reload(t, reloaded) ==
    IF t.rec.output_format # "WAV" THEN t
    ELSE IF ~(t.pb.format = "WAV" /\ t.rec.output_is_input)
    THEN [t EXCEPT !.shared = t.rec.position_tstates]
    ELSE IF reloaded.failed
    THEN [t EXCEPT !.shared = t.rec.position_tstates,
                   !.pb.waveform = tape_waveform_reset(@),
                   !.enabled = 0]
    ELSE recorder_reload_seek(
             tape_reset_playback(
                 [t EXCEPT !.pb = [@ EXCEPT
                      !.image = <<>>,
                      !.format = "WAV",
                      !.waveform = [pulses |-> reloaded.pulses,
                                    initial_level |-> reloaded.initial_level,
                                    sample_rate |-> reloaded.sample_rate]],
                           !.shared = 0]))

tape_recorder_stop_session(t, current_t_state, finalize_output, captured, written, reloaded) ==
    IF t.rec.enabled = 0 THEN t
    ELSE recorder_reload(
            [t EXCEPT !.rec = recorder_finalize(
                recorder_stop_recording(t.rec, current_t_state, captured),
                finalize_output, written)],
            reloaded)

\* tape_recorder_start_session without append: prepared says whether the
\* output file could be set up, truncate whether it has to be cut
tape_recorder_start_session(t, current_t_state, prepared, truncate) ==
    IF t.rec.enabled = 0 \/ t.rec.recording # 0 THEN t
    ELSE IF t.rec.output_format = "WAV"
    THEN IF ~prepared
         THEN [t EXCEPT !.rec = [@ EXCEPT !.session_dirty = 0,
                                          !.position_tstates = t.shared]]
         ELSE [t EXCEPT !.rec = [@ EXCEPT
                  !.session_dirty = IF truncate THEN 1 ELSE 0,
                  !.position_tstates = t.shared,
                  !.recording = 1,
                  !.position_start_tstate = current_t_state]]
    ELSE [t EXCEPT !.rec = [@ EXCEPT
             !.session_dirty = 0,
             !.position_tstates = 0,
             !.recording = 1,
             !.position_start_tstate = current_t_state]]

\* ------------------------------------------------------------------------
\* The tape deck keys F5..F8
\* ------------------------------------------------------------------------
tape_deck_play(t, current_t_state) ==
    IF t.enabled = 0 THEN t
    ELSE IF t.pb.playing # 0 THEN t
    ELSE IF t.pb.format = "WAV"
    THEN IF Len(t.pb.waveform.pulses) = 0 THEN t
         ELSE tape_resume_playback(t, current_t_state)
    ELSE IF Len(t.pb.image) = 0 THEN t
         ELSE tape_resume_playback(t, current_t_state)

tape_deck_stop(t, current_t_state, captured, written, reloaded) ==
    IF t.rec.recording # 0 \/ t.rec.session_dirty # 0
    THEN tape_recorder_stop_session(
             tape_pause_playback(t, current_t_state),
             current_t_state, TRUE, captured, written, reloaded)
    ELSE tape_pause_playback(t, current_t_state)

tape_deck_rewind_finish(t, current_t_state) ==
    [t EXCEPT !.shared = 0,
              !.rec = [@ EXCEPT !.position_tstates = 0,
                                !.position_start_tstate = current_t_state]]

tape_deck_rewind(t, current_t_state, captured, written, reloaded) ==
    tape_deck_rewind_finish(
        tape_recorder_stop_session(
            tape_rewind_playback(tape_pause_playback(t, current_t_state)),
            current_t_state, TRUE, captured, written, reloaded),
        current_t_state)

\* F8 without shift (append_mode = 0)
tape_deck_record(t, current_t_state, prepared, truncate) ==
    IF t.rec.enabled = 0
    THEN IF t.pb.format = "WAV"
         THEN tape_recorder_start_session(
                  tape_pause_playback(
                      [t EXCEPT !.rec = tape_recorder_enable(@, "WAV", TRUE)],
                      current_t_state),
                  current_t_state, prepared, truncate)
         ELSE t
    ELSE tape_recorder_start_session(
             tape_pause_playback(t, current_t_state),
             current_t_state, prepared, truncate)

\* ------------------------------------------------------------------------
\* io_read: the ULA port is every even port.  No key is held down, so the
\* keyboard rows read 0xFF.
\* ------------------------------------------------------------------------
io_read_result(ear) ==
    BitOr(IF ear # 0 THEN BitOr(255, 64)
          ELSE BitAnd(255, 255 - 64),
          160)

io_read(t, port, current_t_state) ==
    IF port % 2 = 0
    THEN [tape |-> tape_update(t, current_t_state),
          result |-> io_read_result(tape_update(t, current_t_state).ear)]
    ELSE [tape |-> t, result |-> 255]

\* ------------------------------------------------------------------------
\* The ULA write queue and the beeper event ring.  Times the source keeps
\* as doubles (playback position, writer cursor) are whole numbers here:
\* the audio rates explored divide CPU_CLOCK_HZ, so cycles_per_sample is a
\* whole number of T-states.  The beeper bundle b holds
\*   b.events                 the pending ring entries, head first
\*   b.last_event_t_state, b.playback_position, b.writer_cursor,
\*   b.playback_level, b.cycles_per_sample    the globals of that name
\*   b.max_latency_samples, b.throttle_samples, b.trim_samples
\*                            the limits beeper_set_latency_limit computes
\* ------------------------------------------------------------------------
BEEPER_EVENT_CAPACITY == 8192
BEEPER_IDLE_RESET_SAMPLES == 512
BEEPER_REWIND_TOLERANCE_SAMPLES == 8
ULA_WRITE_QUEUE_CAPACITY == 64
\* wanted_spec.samples, the length of one audio callback buffer
AUDIO_BUFFER_SAMPLES == 512
AUDIO_AMPLITUDE == 2000

MaxOf(a, b) == IF a > b THEN a ELSE b

\* beeper_set_latency_limit: the limit, throttle and trim thresholds
beeper_set_latency_limit(b, sample_limit) ==
    [b EXCEPT
       !.max_latency_samples = MaxOf(sample_limit, 64),
       !.throttle_samples =
           MaxOf(sample_limit, 64)
           + (IF MaxOf(sample_limit, 64) \div 2 < 128 THEN 128
              ELSE IF MaxOf(sample_limit, 64) \div 2 > 2048 THEN 2048
              ELSE MaxOf(sample_limit, 64) \div 2),
       !.trim_samples =
           MaxOf(sample_limit, 64)
           + (IF MaxOf(sample_limit, 64) \div 2 < 128 THEN 128
              ELSE IF MaxOf(sample_limit, 64) \div 2 > 2048 THEN 2048
              ELSE MaxOf(sample_limit, 64) \div 2)
           + MaxOf(IF MaxOf(sample_limit, 64) \div 2 < 128 THEN 128
                   ELSE IF MaxOf(sample_limit, 64) \div 2 > 2048 THEN 2048
                   ELSE MaxOf(sample_limit, 64) \div 2,
                   MaxOf(sample_limit, 64))]

\* The DC-block filter y = x - last_input + 0.995 * last_output works on
\* doubles.  b.hp_last_input is beeper_hp_last_input, always a whole number;
\* of beeper_hp_last_output the model keeps whether it is 0.0
\* (b.hp_last_output_zero): it stays 0.0 over a sample exactly when it was
\* 0.0 and the sample's raw value equals last_input, and a decaying output
\* is taken not to come back to 0.0.
hp_baseline(level) == IF level # 0 THEN AUDIO_AMPLITUDE ELSE -AUDIO_AMPLITUDE

beeper_reset_audio_state(b, current_t_state, current_level) ==
    [b EXCEPT !.events = <<>>,
              !.last_event_t_state = current_t_state,
              !.playback_position = current_t_state,
              !.writer_cursor = current_t_state,
              !.playback_level = IF current_level # 0 THEN 1 ELSE 0,
              !.hp_last_input = hp_baseline(current_level),
              !.hp_last_output_zero = TRUE]

\* a resynchronisation that leaves the filter running
beeper_force_resync_unfiltered(b, sync_t_state) ==
    [b EXCEPT !.events = <<>>,
              !.playback_position = sync_t_state,
              !.writer_cursor = sync_t_state,
              !.last_event_t_state = sync_t_state]

beeper_force_resync(b, sync_t_state) ==
    [b EXCEPT !.events = <<>>,
              !.playback_position = sync_t_state,
              !.writer_cursor = sync_t_state,
              !.last_event_t_state = sync_t_state,
              !.hp_last_input = hp_baseline(b.playback_level),
              !.hp_last_output_zero = TRUE]

\* how many leading ring entries have a timestamp at or before position
RECURSIVE EventsDue(_, _)
EventsDue(events, position) ==
    IF events = <<>> \/ events[1].t_state > position THEN 0
    ELSE 1 + EventsDue(Tail(events), position)

\* the end of the sample in which the sample loop plays an entry stamped
\* t_state: the samples end at the playback position plus whole samples
hp_sample_end(b, t_state) ==
    b.playback_position
    + b.cycles_per_sample
      * MaxOf(1, (t_state - b.playback_position + b.cycles_per_sample - 1)
                 \div b.cycles_per_sample)

\* every sample played up to position has the raw value of last_input: the
\* level each sample is taken at, that of the last entry due at its end, is
\* the level playback started with
hp_quiet(b, position) ==
    /\ b.hp_last_input = hp_baseline(b.playback_level)
    /\ \A k \in 1..EventsDue(b.events, position) :
          b.events[EventsDue(b.events,
                             hp_sample_end(b, b.events[k].t_state))].level
              = b.playback_level

\* the ring, the playback level and the filter after the sample loop played
\* n entries up to position
beeper_consume(b, n, position) ==
    [b EXCEPT
       !.events = SubSeq(@, n + 1, Len(@)),
       !.playback_level = IF n > 0 THEN b.events[n].level ELSE @,
       !.playback_position = position,
       !.writer_cursor = MaxOf(@, position),
       !.hp_last_input =
           hp_baseline(IF n > 0 THEN b.events[n].level ELSE b.playback_level),
       !.hp_last_output_zero = @ /\ hp_quiet(b, position)]

\* the position the sample loops of beeper_catch_up_to stop at: the first
\* whole sample at or past catch_up_position
catch_up_stop(b, catch_up_position, snapshot) ==
    snapshot
    + b.cycles_per_sample
      * ((catch_up_position - snapshot + b.cycles_per_sample - 1)
         \div b.cycles_per_sample)

beeper_catch_up_to(b, catch_up_position, snapshot) ==
    IF b.cycles_per_sample <= 0 \/ catch_up_position <= snapshot THEN b
    ELSE beeper_consume(b,
            EventsDue(b.events, catch_up_stop(b, catch_up_position, snapshot)),
            catch_up_stop(b, catch_up_position, snapshot))

\* a callback that fills its buffer and leaves the playback position
audio_callback_still(b, num_samples) ==
    IF b.cycles_per_sample <= 0 THEN b
    ELSE beeper_consume(b, EventsDue(b.events, b.playback_position),
                        b.playback_position)

\* audio_callback for a buffer of num_samples samples; the idle branch
\* (lines 5320-5375) moves the last-event time up to the playback position
audio_callback(b, num_samples) ==
    IF b.cycles_per_sample <= 0 THEN b
    ELSE IF b.events = <<>>
            /\ b.playback_position - b.last_event_t_state > 0
            /\ b.playback_position - b.last_event_t_state
                 >= BEEPER_IDLE_RESET_SAMPLES * b.cycles_per_sample
    THEN [b EXCEPT
            !.playback_position = @ + b.cycles_per_sample * num_samples,
            !.writer_cursor =
                MaxOf(@, b.playback_position
                         + b.cycles_per_sample * num_samples),
            !.last_event_t_state =
                MaxOf(@, b.playback_position
                         + b.cycles_per_sample * num_samples),
            !.hp_last_input = hp_baseline(b.playback_level),
            !.hp_last_output_zero = TRUE]
    ELSE beeper_consume(b,
            EventsDue(b.events,
                      b.playback_position + b.cycles_per_sample * num_samples),
            b.playback_position + b.cycles_per_sample * num_samples)

\* beeper_push_event, lines 3979-4002: an event more than the tolerance
\* behind the playback position resynchronises the ring
push_rewind(b, t_state) ==
    IF b.cycles_per_sample > 0
       /\ t_state - b.playback_position
            < -(b.cycles_per_sample * BEEPER_REWIND_TOLERANCE_SAMPLES)
    THEN beeper_force_resync(b, t_state)
    ELSE b

\* the last-event time after a catch-up to catch_up_position
push_caught_up(b, catch_up_position) ==
    [beeper_catch_up_to(b, catch_up_position, b.playback_position)
       EXCEPT !.last_event_t_state = MaxOf(@, catch_up_position)]

\* lines 4004-4090 with the audio device open: a backlog beyond the trim
\* threshold is played out up to the throttle threshold
push_latency(b, t_state) ==
    IF b.cycles_per_sample > 0
       /\ t_state - b.playback_position
            > b.cycles_per_sample * b.max_latency_samples
       /\ b.throttle_samples > 0
       /\ t_state - b.playback_position
            > b.cycles_per_sample * b.throttle_samples
       /\ b.trim_samples > b.throttle_samples
       /\ t_state - b.playback_position
            > b.cycles_per_sample * b.trim_samples
    THEN push_caught_up(b,
             MaxOf(t_state - b.cycles_per_sample * b.throttle_samples, 0))
    ELSE b

\* lines 4092-4135: the event time is clamped to the last event time, then
\* the event enters the ring, which drops its oldest entry when full
push_store(b, t_state, level) ==
    [b EXCEPT
       !.last_event_t_state = MaxOf(@, t_state),
       !.writer_cursor = MaxOf(@, MaxOf(b.last_event_t_state, t_state)),
       !.events =
           Append(IF Len(@) + 1 = BEEPER_EVENT_CAPACITY THEN Tail(@) ELSE @,
                  [t_state |-> MaxOf(b.last_event_t_state, t_state),
                   level |-> IF level # 0 THEN 1 ELSE 0])]

beeper_push_event(b, t_state, level) ==
    push_store(push_latency(push_rewind(b, t_state), t_state), t_state, level)

\* ------------------------------------------------------------------------
\* The ULA bundle u: u.queue is ula_write_queue[0..ula_write_count-1],
\* u.beeper_state and u.beeper the beeper, u.pushed the ring entries the
\* call in progress has queued
\* ------------------------------------------------------------------------
\* event_t_state is total_t_states, or the instruction's base time plus the
\* T-states it has counted so far
\* a full queue that refuses the new write instead of dropping its oldest
ula_queue_port_value_keep(u, value, event_t_state) ==
    [u EXCEPT !.queue =
        IF Len(@) < ULA_WRITE_QUEUE_CAPACITY
        THEN Append(@, [value |-> value,
                        t_state |-> IF Len(@) > 0
                                       /\ event_t_state < @[Len(@)].t_state
                                    THEN @[Len(@)].t_state
                                    ELSE event_t_state])
        ELSE @]

ula_queue_port_value(u, value, event_t_state) ==
    [u EXCEPT !.queue =
        Append(IF Len(@) < ULA_WRITE_QUEUE_CAPACITY THEN @ ELSE Tail(@),
               [value |-> value,
                t_state |-> IF Len(@) > 0
                               /\ event_t_state < @[Len(@)].t_state
                            THEN @[Len(@)].t_state
                            ELSE event_t_state])]

io_write(u, port, value, event_t_state) ==
    IF port % 2 = 0 THEN ula_queue_port_value(u, value, event_t_state) ELSE u

\* the bundle after beeper_push_event left the beeper as b
ula_pushed(u, b, level) ==
    [u EXCEPT !.beeper_state = level,
              !.beeper = b,
              !.pushed = Append(@, b.events[Len(b.events)])]

\* one turn of the loop of ula_process_port_events
ula_process_event(u, e) ==
    IF Bit(e.value, 4) # u.beeper_state
    THEN ula_pushed(u, beeper_push_event(u.beeper, e.t_state, Bit(e.value, 4)),
                    Bit(e.value, 4))
    ELSE u

RECURSIVE ula_process_from(_, _)
ula_process_from(u, i) ==
    IF i > Len(u.queue) THEN [u EXCEPT !.queue = <<>>]
    ELSE ula_process_from(ula_process_event(u, u.queue[i]), i + 1)

ula_process_port_events(u) ==
    IF Len(u.queue) = 0 THEN u ELSE ula_process_from(u, 1)

\* ------------------------------------------------------------------------
\* Waveform synthesis, the recorder's pulse decoder and the WAV loader.
\* A waveform's pulses are the sequence of their durations; a block is
\* [data |-> the payload bytes, pause_ms |-> the pause after it].
\* Allocation is taken to succeed.
\* ------------------------------------------------------------------------
\* tape_waveform_add_pulse: a zero duration adds nothing; the durations
\* followed here stay below UINT32_MAX, where the source cuts them
tape_waveform_add_pulse(pulses, duration) ==
    IF duration = 0 THEN pulses ELSE Append(pulses, duration)

\* lines 946-949
block_pilot_count(block) ==
    IF Len(block.data) > 0 /\ block.data[1] = 0
    THEN TAPE_HEADER_PILOT_COUNT ELSE TAPE_DATA_PILOT_COUNT

\* lines 951-960: pending_silence lengthens the first pilot pulse
pilot_pulses(pilot_count, pending_silence) ==
    [pulse \in 1..pilot_count |->
        IF pulse = 1 THEN TAPE_PILOT_PULSE_TSTATES + pending_silence
        ELSE TAPE_PILOT_PULSE_TSTATES]

\* what is left of pending_silence after n pulses were added
silence_after(n, pending_silence) == IF n > 0 THEN 0 ELSE pending_silence

\* lines 962-974
sync_pulses(pending_silence) ==
    tape_waveform_add_pulse(
        tape_waveform_add_pulse(<<>>,
            TAPE_SYNC_FIRST_PULSE_TSTATES + pending_silence),
        TAPE_SYNC_SECOND_PULSE_TSTATES)

\* the mask starting at 0x01 and moving left: the bits LSB first
data_bit_pulse_lsb(value, bit) ==
    IF BitAnd(value, 2 ^ bit) # 0
    THEN TAPE_BIT1_PULSE_TSTATES ELSE TAPE_BIT0_PULSE_TSTATES

\* lines 978-982: the pulse of bit number bit (0 first) of value, the mask
\* starting at 0x80 and moving right
data_bit_pulse(value, bit) ==
    IF BitAnd(value, 128 \div (2 ^ bit)) # 0
    THEN TAPE_BIT1_PULSE_TSTATES ELSE TAPE_BIT0_PULSE_TSTATES

\* lines 976-996: two pulses for every bit of every byte
data_pulses(data) ==
    [k \in 1..(16 * Len(data)) |->
        data_bit_pulse(data[((k - 1) \div 16) + 1], ((k - 1) % 16) \div 2)]

\* the pulses of one block
block_pulses(block, pending_silence) ==
    pilot_pulses(block_pilot_count(block), pending_silence)
    \o sync_pulses(silence_after(block_pilot_count(block), pending_silence))
    \o data_pulses(block.data)

RECURSIVE generate_from(_, _, _, _)
generate_from(image, block_index, pending_silence, pulses) ==
    IF block_index > Len(image) THEN pulses
    ELSE generate_from(image, block_index + 1,
            tape_pause_to_tstates(image[block_index].pause_ms),
            pulses \o block_pulses(image[block_index], pending_silence))

tape_generate_waveform_from_image(image) ==
    [pulses |-> generate_from(image, 1, 0, <<>>),
     initial_level |-> 1, sample_rate |-> 0]

\* ---- the pulse decoder ----
tape_duration_tolerance(reference) ==
    IF reference \div 4 < 200 THEN 200 ELSE reference \div 4

AbsDiff(a, b) == IF a >= b THEN a - b ELSE b - a

tape_duration_matches(duration, reference, tolerance) ==
    AbsDiff(duration, reference) <= tolerance

is_pilot(duration) ==
    tape_duration_matches(duration, TAPE_PILOT_PULSE_TSTATES,
                          tape_duration_tolerance(TAPE_PILOT_PULSE_TSTATES))

MinOf(S) == CHOOSE x \in S : \A y \in S : x <= y

\* the index after the run of pilot-like pulses that starts at run_start
pilot_run_end(pulses, run_start) ==
    MinOf({j \in run_start..Len(pulses) : ~is_pilot(pulses[j])}
          \cup {Len(pulses) + 1})

\* where the runs of at least 100 pilot-like pulses start
pilot_runs(pulses) ==
    {s \in 1..Len(pulses) :
        /\ is_pilot(pulses[s])
        /\ (s = 1 \/ ~is_pilot(pulses[s - 1]))
        /\ pilot_run_end(pulses, s) - s >= 100}

RECURSIVE SumRange(_, _, _)
SumRange(pulses, lo, hi) ==
    IF lo > hi THEN 0
    ELSE IF lo = hi THEN pulses[lo]
    ELSE SumRange(pulses, lo, (lo + hi) \div 2)
         + SumRange(pulses, ((lo + hi) \div 2) + 1, hi)

RECURSIVE GCD(_, _)
GCD(a, b) == IF b = 0 THEN a ELSE GCD(b, a % b)

\* scale = pilot_average / 2168 kept within [0.5, 2], as the fraction
\* num / den in lowest terms
pilot_scale(pilot_sum, sample_count) ==
    IF pilot_sum = 0 THEN [num |-> 1, den |-> 1]
    ELSE IF 2 * pilot_sum < sample_count * TAPE_PILOT_PULSE_TSTATES
    THEN [num |-> 1, den |-> 2]
    ELSE IF pilot_sum > 2 * sample_count * TAPE_PILOT_PULSE_TSTATES
    THEN [num |-> 2, den |-> 1]
    ELSE [num |-> pilot_sum
                  \div GCD(pilot_sum, sample_count * TAPE_PILOT_PULSE_TSTATES),
          den |-> (sample_count * TAPE_PILOT_PULSE_TSTATES)
                  \div GCD(pilot_sum, sample_count * TAPE_PILOT_PULSE_TSTATES)]

\* (int)(reference * scale + 0.5), the reference itself when that is 0
scaled_reference(reference, scale) ==
    IF RoundHalfUp(reference * scale.num, scale.den) <= 0 THEN reference
    ELSE RoundHalfUp(reference * scale.num, scale.den)

matches_bit(d1, d2, reference) ==
    /\ tape_duration_matches(d1, reference, tape_duration_tolerance(reference))
    /\ tape_duration_matches(d2, reference, tape_duration_tolerance(reference))

\* lines 3516-3541: 1 for a one, 0 for a zero, -1 when the pair is neither;
\* r1 and r0 are the scaled references of a one and a zero
pair_by_sum(d1, d2, r1, r0) ==
    IF AbsDiff(d1 + d2, 2 * r1) <= tape_duration_tolerance(2 * r1)
       /\ AbsDiff(d1 + d2, 2 * r1) < AbsDiff(d1 + d2, 2 * r0)
    THEN 1
    ELSE IF AbsDiff(d1 + d2, 2 * r0) <= tape_duration_tolerance(2 * r0)
    THEN 0
    ELSE IF AbsDiff(d1, r1) + AbsDiff(d2, r1) < AbsDiff(d1, r0) + AbsDiff(d2, r0)
            /\ AbsDiff(d1, r1) + AbsDiff(d2, r1)
                 <= tape_duration_tolerance(r1) * 4
    THEN 1
    ELSE IF AbsDiff(d1, r0) + AbsDiff(d2, r0) <= AbsDiff(d1, r1) + AbsDiff(d2, r1)
            /\ AbsDiff(d1, r0) + AbsDiff(d2, r0)
                 <= tape_duration_tolerance(r0) * 4
    THEN 0
    ELSE -1

decode_pair(d1, d2, r1, r0) ==
    IF matches_bit(d1, d2, r1) THEN 1
    ELSE IF matches_bit(d1, d2, r0) THEN 0
    ELSE pair_by_sum(d1, d2, r1, r0)

\* value |= 1 << bit: the first pair decoded as the lowest bit
bit_value_lsb(bit) == 2 ^ bit

\* value |= 1 << (7 - bit)
bit_value(bit) == 2 ^ (7 - bit)

RECURSIVE decode_byte(_, _, _, _, _)
decode_byte(pulses, index, r1, r0, bit) ==
    IF bit = 8 THEN 0
    ELSE (IF decode_pair(pulses[index + 2 * bit], pulses[index + 2 * bit + 1],
                         r1, r0) = 1
          THEN bit_value(bit) ELSE 0)
         + decode_byte(pulses, index, r1, r0, bit + 1)

NoBlock == [ok |-> FALSE, data |-> <<>>, pause_ms |-> 0]

\* lines 3468-3554; index is the 1-based place of the first data pulse
decode_data(pulses, index, byte_count, r1, r0, pause_ms) ==
    IF \E k \in 0..(8 * byte_count - 1) :
          decode_pair(pulses[index + 2 * k], pulses[index + 2 * k + 1],
                      r1, r0) = -1
    THEN NoBlock
    ELSE [ok |-> TRUE,
          data |-> [b \in 1..byte_count |->
                       decode_byte(pulses, index + 16 * (b - 1), r1, r0, 0)],
          pause_ms |-> pause_ms]

\* lines 3421-3466; index is the 1-based place of the first sync pulse
decode_sync(pulses, index, scale, pause_ms) ==
    IF index + 1 > Len(pulses) THEN NoBlock
    ELSE IF ~tape_duration_matches(pulses[index],
                scaled_reference(TAPE_SYNC_FIRST_PULSE_TSTATES, scale),
                tape_duration_tolerance(
                    scaled_reference(TAPE_SYNC_FIRST_PULSE_TSTATES, scale)))
            \/ ~tape_duration_matches(pulses[index + 1],
                scaled_reference(TAPE_SYNC_SECOND_PULSE_TSTATES, scale),
                tape_duration_tolerance(
                    scaled_reference(TAPE_SYNC_SECOND_PULSE_TSTATES, scale)))
    THEN NoBlock
    ELSE IF (Len(pulses) - (index + 1)) \div 16 = 0 THEN NoBlock
    ELSE decode_data(pulses, index + 2, (Len(pulses) - (index + 1)) \div 16,
                     scaled_reference(TAPE_BIT1_PULSE_TSTATES, scale),
                     scaled_reference(TAPE_BIT0_PULSE_TSTATES, scale),
                     pause_ms)

\* the pilot run found: it starts at pilot_start and ends before run_end
decode_pilot(pulses, pilot_start, run_end, pause_ms) ==
    decode_sync(pulses, run_end,
        pilot_scale(
            SumRange(pulses, pilot_start,
                     pilot_start
                     + (IF run_end - pilot_start > 4096 THEN 4096
                        ELSE run_end - pilot_start) - 1),
            IF run_end - pilot_start > 4096 THEN 4096
            ELSE run_end - pilot_start),
        pause_ms)

tape_decode_pulses_to_block(pulses, pause_ms) ==
    IF Len(pulses) = 0 \/ pilot_runs(pulses) = {} THEN NoBlock
    ELSE decode_pilot(pulses, MinOf(pilot_runs(pulses)),
                      pilot_run_end(pulses, MinOf(pilot_runs(pulses))),
                      pause_ms)

\* ---- the sample loop of tape_load_wav ----
\* the level of a sample: 16-bit samples are signed, 8-bit ones are 128
\* above their value
sample_level(sample_value) == IF sample_value >= 0 THEN 1 ELSE 0

\* lines 1414-1417
run_duration(run_length, sample_rate) ==
    IF RoundHalfUp(CPU_CLOCK_HZ * run_length, sample_rate) = 0 /\ run_length > 0
    THEN 1
    ELSE RoundHalfUp(CPU_CLOCK_HZ * run_length, sample_rate)

\* lines 1402-1431: the loop from sample_index on (1-based), the run in
\* progress being run_length samples at previous_level
RECURSIVE wav_runs(_, _, _, _, _, _)
wav_runs(samples, sample_index, previous_level, run_length, sample_rate, pulses) ==
    IF sample_index > Len(samples) THEN pulses
    ELSE IF sample_level(samples[sample_index]) = previous_level
    THEN wav_runs(samples, sample_index + 1, previous_level, run_length + 1,
                  sample_rate, pulses)
    ELSE wav_runs(samples, sample_index + 1,
                  sample_level(samples[sample_index]), 1, sample_rate,
                  tape_waveform_add_pulse(pulses,
                      run_duration(run_length, sample_rate)))

\* tape_load_wav once the header was accepted: samples are the values of
\* the data chunk
tape_load_wav(samples, sample_rate) ==
    IF Len(samples) = 0
    THEN [pulses |-> <<>>, initial_level |-> 1, sample_rate |-> sample_rate]
    ELSE [pulses |-> wav_runs(samples, 2, sample_level(samples[1]), 1,
                              sample_rate, <<>>),
          initial_level |-> sample_level(samples[1]),
          sample_rate |-> sample_rate]

\* ------------------------------------------------------------------------
\* tape_load_tzx once the signature was accepted: blocks are the blocks of
\* the file, each with its ID byte, and for ID 0x10 its pause and payload.
\* A failed load reports what its message is formatted from.
\* ------------------------------------------------------------------------
TZX_HEADER_BYTES == 10
TZX_STANDARD_BLOCK == 16

NoLoad == [ok |-> TRUE, image |-> <<>>, error |-> [message |-> "none"]]

\* the bytes block takes in the file
tzx_block_bytes(block) ==
    IF block.id = TZX_STANDARD_BLOCK THEN 5 + Len(block.data) ELSE 1

\* the file offset of the ID byte of block number block_index
RECURSIVE tzx_block_offset(_, _)
tzx_block_offset(blocks, block_index) ==
    IF block_index = 1 THEN TZX_HEADER_BYTES
    ELSE tzx_block_offset(blocks, block_index - 1)
         + tzx_block_bytes(blocks[block_index - 1])

\* lines 1082-1130: the loop from block block_index on
RECURSIVE tzx_blocks_from(_, _, _)
tzx_blocks_from(blocks, block_index, image) ==
    IF block_index > Len(blocks)
    THEN [ok |-> TRUE, image |-> image, error |-> [message |-> "none"]]
    ELSE IF blocks[block_index].id = TZX_STANDARD_BLOCK
    THEN tzx_blocks_from(blocks, block_index + 1,
             Append(image, [data |-> blocks[block_index].data,
                            pause_ms |-> blocks[block_index].pause_ms]))
    ELSE [ok |-> FALSE, image |-> image,
          error |-> [message |-> "Unsupported TZX block type 0x%02X in '%s'",
                     block_id |-> blocks[block_index].id,
                     path |-> "path"]]

tape_load_tzx(blocks) == tzx_blocks_from(blocks, 1, <<>>)

\* main, lines 5564-5567: a tape image that fails to load is freed and the
\* emulator exits
main_load_image(loaded) ==
    IF loaded.ok THEN loaded ELSE [loaded EXCEPT !.image = <<>>]

\* ------------------------------------------------------------------------
\* The tape recorder proper: MIC edges into pulses, pulses into decoded
\* blocks and audio samples, and the output file.  The recorder works on
\* a record rec of the TapeRecorder fields; audio is kept as runs of equal
\* samples, [value, count], adjacent runs of one value joined, so that two
\* run lists are equal exactly when their sample sequences are.  A WAV
\* file is its header fields and body, the 16- or 8-bit words that follow
\* the header of the data chunk up to the end of the file, as runs.
\* ------------------------------------------------------------------------
TAPE_WAV_AMPLITUDE == 20000
TAPE_SILENCE_THRESHOLD_TSTATES == 350000
WAV_HEADER_BYTES == 44

\* the samples of the runs lo..hi
RECURSIVE RunsSum(_, _, _)
RunsSum(runs, lo, hi) ==
    IF lo > hi THEN 0
    ELSE IF lo = hi THEN runs[lo].count
    ELSE RunsSum(runs, lo, (lo + hi) \div 2)
         + RunsSum(runs, ((lo + hi) \div 2) + 1, hi)

RunsLen(runs) == RunsSum(runs, 1, Len(runs))

\* count more samples of one value at the end of runs
AddRun(runs, value, count) ==
    IF count = 0 THEN runs
    ELSE IF Len(runs) > 0 /\ runs[Len(runs)].value = value
    THEN [runs EXCEPT ![Len(runs)].count = @ + count]
    ELSE Append(runs, [value |-> value, count |-> count])

\* the samples of runs followed by those of more
JoinRuns(runs, more) ==
    IF Len(runs) > 0 /\ Len(more) > 0 /\ runs[Len(runs)].value = more[1].value
    THEN SubSeq(runs, 1, Len(runs) - 1)
         \o <<[value |-> more[1].value,
               count |-> runs[Len(runs)].count + more[1].count]>>
         \o Tail(more)
    ELSE runs \o more

\* how many of the runs lie within the first count samples
WholeRuns(runs, count) ==
    Cardinality({i \in 1..Len(runs) : RunsSum(runs, 1, i) <= count})

\* the first count samples of runs, whole of them lying within
TakeWhole(runs, count, whole) ==
    IF whole = Len(runs) \/ RunsSum(runs, 1, whole) = count
    THEN SubSeq(runs, 1, whole)
    ELSE Append(SubSeq(runs, 1, whole),
                [value |-> runs[whole + 1].value,
                 count |-> count - RunsSum(runs, 1, whole)])

\* the first count samples of runs
TakeRuns(runs, count) == TakeWhole(runs, count, WholeRuns(runs, count))

NoRec ==
    [enabled |-> 0, output_format |-> "NONE", recording |-> 0,
     block_active |-> 0, last_transition_tstate |-> 0, last_level |-> -1,
     block_start_level |-> 0, pulses |-> <<>>, recorded |-> <<>>,
     audio_samples |-> <<>>, audio_sample_count |-> 0, sample_rate |-> 0, session_dirty |-> 0,
     append_mode |-> 0, append_data_chunk_offset |-> 0,
     append_existing_data_bytes |-> 0, wav_prefix_samples |-> <<>>,
     wav_prefix_sample_count |-> 0,
     wav_existing_samples |-> 0, wav_head_samples |-> 0,
     wav_requires_truncate |-> 0, position_tstates |-> 0,
     position_start_tstate |-> 0]

\* tape_recorder_enable with every field spelled out
recorder_enable(format, audio_sample_rate) ==
    [NoRec EXCEPT
        !.enabled = 1,
        !.output_format = format,
        !.sample_rate = IF audio_sample_rate > 0 THEN audio_sample_rate
                        ELSE 44100]

tape_recorder_append_pulse(rec, duration) ==
    IF duration = 0 THEN rec
    ELSE [rec EXCEPT !.pulses = Append(@, duration), !.session_dirty = 1]

\* a pulse for every event of an open block, whatever its level
tape_recorder_handle_mic_every(rec, t_state, level) ==
    IF rec.enabled = 0 \/ rec.recording = 0 THEN rec
    ELSE IF rec.block_active = 0
    THEN [rec EXCEPT
            !.block_active = 1,
            !.last_transition_tstate = t_state,
            !.last_level = level,
            !.block_start_level = IF level # 0 THEN 1 ELSE 0]
    ELSE [tape_recorder_append_pulse(rec,
              IF t_state > rec.last_transition_tstate
              THEN t_state - rec.last_transition_tstate ELSE 0)
          EXCEPT !.last_transition_tstate = t_state, !.last_level = level]

\* lines 3605-3631
tape_recorder_handle_mic(rec, t_state, level) ==
    IF rec.enabled = 0 \/ rec.recording = 0 THEN rec
    ELSE IF rec.block_active = 0
    THEN [rec EXCEPT
            !.block_active = 1,
            !.last_transition_tstate = t_state,
            !.last_level = level,
            !.block_start_level = IF level # 0 THEN 1 ELSE 0]
    ELSE IF level = rec.last_level THEN rec
    ELSE [tape_recorder_append_pulse(rec,
              IF t_state > rec.last_transition_tstate
              THEN t_state - rec.last_transition_tstate ELSE 0)
          EXCEPT !.last_transition_tstate = t_state, !.last_level = level]

\* (size_t)(duration / CPU_CLOCK_HZ * sample_rate + 0.5), at least 1; the
\* fraction is reduced first to keep the product small
tape_recorder_samples_from_tstates(sample_rate, duration) ==
    IF duration = 0 \/ sample_rate = 0 THEN 0
    ELSE MaxOf(1, RoundHalfUp(
                      duration * (sample_rate \div GCD(sample_rate, CPU_CLOCK_HZ)),
                      CPU_CLOCK_HZ \div GCD(sample_rate, CPU_CLOCK_HZ)))

\* the sample rate tape_recorder_tstates_from_samples works with
default_sample_rate(sample_rate) ==
    IF sample_rate = 0 THEN 44100 ELSE sample_rate

\* (uint64_t)(sample_count / sample_rate * CPU_CLOCK_HZ + 0.5), at least 1
tape_recorder_tstates_from_samples(sample_rate, sample_count) ==
    IF sample_count = 0 THEN 0
    ELSE MaxOf(1, RoundHalfUp(
             sample_count
             * (CPU_CLOCK_HZ
                \div GCD(default_sample_rate(sample_rate), CPU_CLOCK_HZ)),
             default_sample_rate(sample_rate)
             \div GCD(default_sample_rate(sample_rate), CPU_CLOCK_HZ)))

tape_recorder_append_audio_samples(rec, level, sample_count) ==
    IF sample_count = 0 THEN rec
    ELSE [rec EXCEPT
            !.audio_samples =
                AddRun(@, IF level # 0 THEN TAPE_WAV_AMPLITUDE
                          ELSE -TAPE_WAV_AMPLITUDE, sample_count),
            !.audio_sample_count = @ + sample_count,
            !.session_dirty = 1]

\* the loop of tape_recorder_append_block_audio over the pulses lo..hi:
\* the level starts at block_start_level and alternates
RECURSIVE block_audio_pulses(_, _, _)
block_audio_pulses(rec, lo, hi) ==
    IF lo > hi THEN rec
    ELSE IF lo = hi
    THEN tape_recorder_append_audio_samples(rec,
             (rec.block_start_level + lo + 1) % 2,
             tape_recorder_samples_from_tstates(rec.sample_rate,
                                                rec.pulses[lo]))
    ELSE CHOOSE r \in
             {block_audio_pulses(left, ((lo + hi) \div 2) + 1, hi) :
                 left \in {block_audio_pulses(rec, lo, (lo + hi) \div 2)}} :
             TRUE

block_audio_idle(rec, idle_cycles) ==
    IF idle_cycles > 0 /\ rec.last_level >= 0
    THEN tape_recorder_append_audio_samples(rec,
             IF rec.last_level # 0 THEN 1 ELSE 0,
             tape_recorder_samples_from_tstates(rec.sample_rate, idle_cycles))
    ELSE rec

tape_recorder_append_block_audio(rec, idle_cycles) ==
    IF rec.output_format # "WAV" THEN rec
    ELSE block_audio_idle(
             block_audio_pulses(rec, 1, Len(rec.pulses)), idle_cycles)

finalize_idle_cycles(rec, current_t_state) ==
    IF current_t_state > rec.last_transition_tstate
    THEN current_t_state - rec.last_transition_tstate ELSE 0

\* (uint32_t)(idle_cycles / CPU_CLOCK_HZ * 1000 + 0.5), at most 10000
finalize_pause_ms(idle_cycles) ==
    IF idle_cycles = 0 THEN 1000
    ELSE IF idle_cycles > 10 * CPU_CLOCK_HZ THEN 10000
    ELSE RoundHalfUp(idle_cycles, CPU_CLOCK_HZ \div 1000)

finalize_add_block(rec, block) ==
    IF block.ok
    THEN [rec EXCEPT
            !.recorded = Append(@, [data |-> block.data,
                                    pause_ms |-> block.pause_ms])]
    ELSE rec

finalize_decode(rec, pause_ms) ==
    IF rec.output_format = "TAP" /\ Len(rec.pulses) >= 100
    THEN finalize_add_block(rec,
             tape_decode_pulses_to_block(rec.pulses, pause_ms))
    ELSE rec

finalize_flush(rec, current_t_state, idle_cycles) ==
    [tape_recorder_append_block_audio(
         finalize_decode(rec, finalize_pause_ms(idle_cycles)), idle_cycles)
     EXCEPT !.block_active = 0,
            !.pulses = <<>>,
            !.last_transition_tstate = current_t_state]

tape_recorder_finalize_block(rec, current_t_state, force_flush) ==
    IF rec.block_active = 0 \/ Len(rec.pulses) = 0
    THEN [rec EXCEPT !.block_active = IF force_flush # 0 THEN 0 ELSE @]
    ELSE IF force_flush = 0
            /\ finalize_idle_cycles(rec, current_t_state)
                   < TAPE_SILENCE_THRESHOLD_TSTATES
    THEN rec
    ELSE finalize_flush(rec, current_t_state,
                        finalize_idle_cycles(rec, current_t_state))

\* tape_recorder_update on the record
recorder_update(rec, current_t_state, force_flush) ==
    IF rec.enabled = 0 \/ (rec.recording = 0 /\ force_flush = 0) THEN rec
    ELSE tape_recorder_finalize_block(rec, current_t_state, force_flush)

\* no file at the output path
NoOutput ==
    [kind |-> "none", bits |-> 0, sample_rate |-> 0, data_offset |-> 0,
     data_size |-> 0, riff_size |-> 0, body |-> <<>>, blocks |-> <<>>]

\* a mono PCM WAV file with the canonical 44-byte header: body holds
\* data_samples samples of the data chunk and then whatever chunks follow
WavFile(bits, sample_rate, body, data_samples) ==
    [kind |-> "wav", bits |-> bits, sample_rate |-> sample_rate,
     data_offset |-> WAV_HEADER_BYTES - 8,
     data_size |-> data_samples * (bits \div 8),
     riff_size |-> WAV_HEADER_BYTES - 8 + RunsLen(body) * (bits \div 8),
     body |-> body, blocks |-> <<>>]

\* a file that is not a RIFF/WAVE mono PCM file
JunkFile == [NoOutput EXCEPT !.kind = "junk"]

\* the data chunk as its size field delimits it, as 16-bit samples:
\* 8-bit samples are widened as tape_recorder_prepare_wav_session does
Widen8(runs) ==
    [i \in 1..Len(runs) |->
        [value |-> (runs[i].value - 128) * 256, count |-> runs[i].count]]

DataChunk(file, count) ==
    IF file.bits = 16 THEN TakeRuns(file.body, count)
    ELSE Widen8(TakeRuns(file.body, count))

\* the recorder, its output file and the shared head position as the
\* bundle the session functions work on; ok is what the call returned
RecBundle(rec, file, shared) ==
    [rec |-> rec, file |-> file, shared |-> shared, ok |-> TRUE]

\* lines 2853-2860 and the reads that follow
prepare_prefix(s, requested_samples) ==
    [s EXCEPT
        !.rec.wav_head_samples = requested_samples,
        !.rec.wav_prefix_sample_count = requested_samples,
        !.rec.wav_requires_truncate =
            IF requested_samples < s.rec.wav_existing_samples THEN 1 ELSE 0,
        !.rec.wav_prefix_samples = DataChunk(s.file, requested_samples)]

prepare_request(s, head_tstates) ==
    prepare_prefix(s,
        MinOf({tape_recorder_samples_from_tstates(s.rec.sample_rate,
                                                  head_tstates),
               s.rec.wav_existing_samples}))

\* lines 2845-2851: the sample count and rate of the file found
prepare_existing(s) ==
    [s EXCEPT
        !.rec.wav_existing_samples = s.file.data_size \div (s.file.bits \div 8),
        !.rec.sample_rate =
            IF s.file.sample_rate # 0 THEN s.file.sample_rate
            ELSE default_sample_rate(@)]

tape_recorder_prepare_wav_session(s, head_tstates) ==
    IF s.file.kind = "none"
    THEN [s EXCEPT !.rec.sample_rate = default_sample_rate(@)]
    ELSE IF s.file.kind # "wav" \/ s.file.bits \div 8 = 0
    THEN [s EXCEPT !.ok = FALSE]
    ELSE IF s.file.data_size % (s.file.bits \div 8) # 0
    THEN [s EXCEPT !.ok = FALSE]
    ELSE prepare_request(prepare_existing(s), head_tstates)

\* whether tape_recorder_prepare_append_wav accepts the file
tape_recorder_prepare_append_wav(file) ==
    /\ file.kind = "wav"
    /\ file.bits = 16
    /\ file.sample_rate # 0
    /\ file.data_size % 2 = 0

start_reset(s, use_append) ==
    [s EXCEPT
        !.ok = TRUE,
        !.rec.pulses = <<>>,
        !.rec.recorded = <<>>,
        !.rec.audio_samples = <<>>,
        !.rec.audio_sample_count = 0,
        !.rec.wav_prefix_samples = <<>>,
        !.rec.wav_prefix_sample_count = 0,
        !.rec.wav_existing_samples = 0,
        !.rec.wav_head_samples = 0,
        !.rec.wav_requires_truncate = 0,
        !.rec.session_dirty = 0,
        !.rec.append_mode = use_append]

\* lines 2997-3005
start_begin(s, current_t_state) ==
    [s EXCEPT
        !.rec.recording = 1,
        !.rec.block_active = 0,
        !.rec.last_transition_tstate = current_t_state,
        !.rec.last_level = -1,
        !.rec.block_start_level = 0,
        !.rec.position_start_tstate = current_t_state]

start_append(s, current_t_state) ==
    IF ~tape_recorder_prepare_append_wav(s.file)
    THEN [s EXCEPT !.ok = FALSE, !.rec.append_mode = 0]
    ELSE start_begin(
             [s EXCEPT
                !.rec.append_data_chunk_offset = s.file.data_offset,
                !.rec.append_existing_data_bytes = s.file.data_size,
                !.rec.sample_rate = s.file.sample_rate,
                !.rec.position_tstates =
                    tape_recorder_tstates_from_samples(s.file.sample_rate,
                                                       s.file.data_size \div 2),
                !.shared =
                    tape_recorder_tstates_from_samples(s.file.sample_rate,
                                                       s.file.data_size \div 2)],
             current_t_state)

start_prepared(s, current_t_state) ==
    IF ~s.ok THEN s
    ELSE start_begin(
             [s EXCEPT !.rec.session_dirty =
                           IF s.rec.wav_requires_truncate # 0 THEN 1 ELSE @],
             current_t_state)

start_normal(s, current_t_state) ==
    start_prepared(
        tape_recorder_prepare_wav_session(
            [s EXCEPT !.rec.append_data_chunk_offset = 0,
                      !.rec.append_existing_data_bytes = 0,
                      !.rec.position_tstates = s.shared],
            s.shared),
        current_t_state)

\* a TAP capture starts from no file at all
start_tap(s, current_t_state) ==
    start_begin(
        [s EXCEPT !.rec.append_data_chunk_offset = 0,
                  !.rec.append_existing_data_bytes = 0,
                  !.rec.position_tstates = 0,
                  !.file = NoOutput],
        current_t_state)

\* tape_recorder_start_session on the bundle, the file read as it is
recorder_start_session(s, current_t_state, append_mode) ==
    IF s.rec.enabled = 0 \/ s.rec.recording # 0 THEN [s EXCEPT !.ok = FALSE]
    ELSE IF s.rec.output_format # "WAV"
    THEN start_tap(start_reset(s, 0), current_t_state)
    ELSE IF append_mode # 0
    THEN start_append(start_reset(s, 1), current_t_state)
    ELSE start_normal(start_reset(s, 0), current_t_state)

\* lines 3191-3295: the samples go to the end of the file, then the two
\* size fields are rewritten
write_wav_append(s) ==
    IF s.rec.audio_sample_count = 0 THEN [s EXCEPT !.rec.session_dirty = 0]
    ELSE [s EXCEPT
            !.file.body = JoinRuns(@, s.rec.audio_samples),
            !.file.riff_size =
                s.file.data_offset + 8
                + 2 * (RunsLen(s.file.body) + s.rec.audio_sample_count) - 8,
            !.file.data_size =
                s.rec.append_existing_data_bytes + 2 * s.rec.audio_sample_count,
            !.rec.append_existing_data_bytes =
                @ + 2 * s.rec.audio_sample_count,
            !.rec.session_dirty = 0]

\* a new file of the capture alone
write_wav_new_capture(s) ==
    [s EXCEPT
        !.file =
            WavFile(16, default_sample_rate(s.rec.sample_rate),
                    s.rec.audio_samples, s.rec.audio_sample_count),
        !.rec.session_dirty = 0,
        !.rec.wav_prefix_sample_count = @ + s.rec.audio_sample_count,
        !.rec.wav_existing_samples =
            s.rec.wav_prefix_sample_count + s.rec.audio_sample_count,
        !.rec.wav_head_samples =
            s.rec.wav_prefix_sample_count + s.rec.audio_sample_count]

\* lines 3297-3384: a new file of the kept prefix and the capture
write_wav_new(s) ==
    [s EXCEPT
        !.file =
            WavFile(16, default_sample_rate(s.rec.sample_rate),
                    JoinRuns(s.rec.wav_prefix_samples, s.rec.audio_samples),
                    s.rec.wav_prefix_sample_count + s.rec.audio_sample_count),
        !.rec.session_dirty = 0,
        !.rec.wav_prefix_sample_count = @ + s.rec.audio_sample_count,
        !.rec.wav_existing_samples =
            s.rec.wav_prefix_sample_count + s.rec.audio_sample_count,
        !.rec.wav_head_samples =
            s.rec.wav_prefix_sample_count + s.rec.audio_sample_count]

tape_recorder_write_wav(s) ==
    IF s.rec.append_mode # 0 THEN write_wav_append(s) ELSE write_wav_new(s)

\* the TAP file written holds the decoded blocks, each behind its length
tape_recorder_write_output(s) ==
    IF s.rec.enabled = 0 \/ s.rec.session_dirty = 0 THEN s
    ELSE IF s.rec.output_format = "WAV" THEN tape_recorder_write_wav(s)
    ELSE [s EXCEPT
            !.file = [NoOutput EXCEPT !.kind = "tap",
                                      !.blocks = s.rec.recorded],
            !.rec.session_dirty = 0]

\* lines 3013-3023
stop_recording(s, current_t_state) ==
    IF s.rec.recording = 0 THEN s
    ELSE [s EXCEPT
            !.rec = [recorder_update(@, current_t_state, 1) EXCEPT
                        !.recording = 0,
                        !.block_active = 0,
                        !.last_transition_tstate = current_t_state,
                        !.last_level = -1,
                        !.position_tstates =
                            IF current_t_state > s.rec.position_start_tstate
                            THEN @ + current_t_state
                                 - s.rec.position_start_tstate
                            ELSE @,
                        !.position_start_tstate = current_t_state]]

stop_write(s, finalize_output) ==
    IF finalize_output # 0 /\ s.rec.session_dirty # 0
    THEN tape_recorder_write_output(s) ELSE s

\* lines 3031-3048 without the reload of the input tape, which the deck
\* model covers
stop_finish(s) ==
    [s EXCEPT
        !.shared = IF s.rec.output_format = "WAV" THEN s.rec.position_tstates
                   ELSE @,
        !.rec.wav_prefix_samples = <<>>,
        !.rec.wav_prefix_sample_count = 0,
        !.rec.wav_existing_samples = 0,
        !.rec.wav_head_samples = 0,
        !.rec.wav_requires_truncate = 0]

\* tape_recorder_stop_session on the bundle, the file written as asked
recorder_stop_session(s, current_t_state, finalize_output) ==
    IF s.rec.enabled = 0 THEN s
    ELSE stop_finish(stop_write(stop_recording(s, current_t_state),
                                finalize_output))

\* a run of tape_recorder_handle_mic calls, one per edge of a pulse train:
\* the edges lo..hi are delivered in order, edge lo at t_state with the
\* level given, each later edge a pulse of the train after the one before
\* it and at the other level; the first half of the edges is evaluated
\* before the second is entered
RECURSIVE mic_train(_, _, _, _, _, _)
mic_train(rec, t_state, level, train, lo, hi) ==
    IF lo > hi THEN rec
    ELSE IF lo = hi THEN tape_recorder_handle_mic(rec, t_state, level)
    ELSE CHOOSE r \in
             {mic_train(left,
                        t_state + SumRange(train, lo + 1, ((lo + hi) \div 2) + 1),
                        (level + ((lo + hi) \div 2) + 1 - lo) % 2,
                        train, ((lo + hi) \div 2) + 1, hi) :
                 left \in {mic_train(rec, t_state, level, train, lo,
                                     (lo + hi) \div 2)}} : TRUE

\* ------------------------------------------------------------------------
\* State
\* ------------------------------------------------------------------------
VARIABLES
    cpu,                        \* the Z80 structure
    memory,                     \* uint8_t memory[0x10000], the cells set
    total_t_states,             \* the global clock
    frame_t_state_accumulator,  \* main's T-states into the current frame
    last,                       \* what the last call did and returned
    steps,                      \* cpu_step calls / main iterations so far
    irqs,                       \* direct cpu_interrupt calls so far
    throttles,                  \* audio-latency breaks of main's loop so far
    start,                      \* the set-up the behaviour started from
    tape_playback,              \* the TapePlaybackState of the input tape
    tape_ear_state,             \* the EAR level the ULA port shows
    tape_input_enabled,         \* whether there is a tape to play
    tape_recorder,              \* the TapeRecorder
    tape_wav_shared_position_tstates, \* head position shared with the recorder
    tape_log,                   \* what the last tape call did
    ula_write_queue,            \* ula_write_queue[0..ula_write_count-1]
    beeper_state,               \* the speaker level last written
    beeper,                     \* the beeper event ring and its cursors
    ula_log,                    \* what the last ULA or audio call did
    codec_in,                   \* the tape file a conversion is given
    codec_out,                  \* what the last conversion produced
    output_file,                \* the file at the recorder's output path
    rec_log,                    \* what the last recorder call did
    sdl,                        \* the audio device, its lock and both threads
    sdl_log                     \* the last access to the beeper's shared state

tapeVars == <<tape_playback, tape_ear_state, tape_input_enabled,
              tape_recorder, tape_wav_shared_position_tstates, tape_log>>

ulaVars == <<ula_write_queue, beeper_state, beeper, ula_log>>

codecVars == <<codec_in, codec_out>>

recVars == <<output_file, rec_log>>

lockVars == <<sdl, sdl_log>>

vars == <<cpu, memory, total_t_states, frame_t_state_accumulator, last,
          steps, irqs, throttles, start, tapeVars, ulaVars, codecVars,
          recVars, lockVars>>

NoCall ==
    [call |-> "none", t |-> 0, op |-> -1, sub |-> -1, prefix |-> 0,
     nprefix |-> 0, irq |-> FALSE, data |-> 0, abort |-> FALSE]

\* the tape globals as the bundle the tape functions work on
TapeState ==
    [pb |-> tape_playback, ear |-> tape_ear_state,
     enabled |-> tape_input_enabled, rec |-> tape_recorder,
     shared |-> tape_wav_shared_position_tstates, edges |-> <<>>]

\* the tape globals take the values of the bundle t
TapeCommit(t) ==
    /\ tape_playback' = t.pb
    /\ tape_ear_state' = t.ear
    /\ tape_input_enabled' = t.enabled
    /\ tape_recorder' = t.rec
    /\ tape_wav_shared_position_tstates' = t.shared

NoTapeCall(t) ==
    [call |-> "none", now |-> 0, port |-> 0, result |-> 255, edges |-> <<>>,
     keys |-> 0,
     run |-> [active |-> FALSE, start |-> 0, edges |-> <<>>]]

\* ------------------------------------------------------------------------
\* Tape set-ups: the tape state main leaves before its loop starts
\* (lines 5549-5598), for each kind of tape given on the command line
\* ------------------------------------------------------------------------
\* static TapePlaybackState tape_playback = {0}
ZeroPlayback ==
    [image |-> <<>>,
     waveform |-> [pulses |-> <<>>, initial_level |-> 0, sample_rate |-> 0],
     format |-> "NONE", use_waveform_playback |-> 0, current_block |-> 0,
     phase |-> "IDLE", pilot_pulses_remaining |-> 0, data_byte_index |-> 0,
     data_bit_mask |-> 0, data_pulse_half |-> 0,
     next_transition_tstate |-> 0, pause_end_tstate |-> 0, level |-> 0,
     playing |-> 0, waveform_index |-> 0, paused_transition_remaining |-> 0,
     paused_pause_remaining |-> 0, position_tstates |-> 0,
     position_start_tstate |-> 0, last_transition_tstate |-> 0]

\* no tape argument: tape_ear_state = 1 and tape_input_enabled = 0 as
\* declared
NoTape ==
    [pb |-> ZeroPlayback, ear |-> 1, enabled |-> 0, rec |-> NoRecorder,
     shared |-> 0, edges |-> <<>>]

\* a WAV tape whose loader produced the waveform w
WavTape(w) ==
    tape_reset_playback(
        [NoTape EXCEPT !.pb = [@ EXCEPT !.format = "WAV", !.waveform = w],
                       !.enabled = 1])

\* the pulse lists of the WAV tapes explored, in T-states
WavPulses == {<<>>, <<3>>, <<3, 5>>, <<4, 2, 6>>}

\* sample rate of the WAV tapes explored: one sample per T-state
WavSampleRate == 3500000

WavWaveforms ==
    {[pulses |-> p, initial_level |-> l, sample_rate |-> WavSampleRate] :
        p \in WavPulses, l \in {0, 1}}

\* what tape_load_wav can return when the recorder reloads the input file
Reloads ==
    {LoadFailed}
    \cup {[pulses |-> p, initial_level |-> 0, sample_rate |-> WavSampleRate,
           failed |-> FALSE] : p \in {<<4, 2, 6>>}}

TapeSetups == {NoTape} \cup {WavTape(w) : w \in WavWaveforms}

\* the tape globals and the log at the start of a behaviour
TapeIs(t) ==
    /\ tape_playback = t.pb
    /\ tape_ear_state = t.ear
    /\ tape_input_enabled = t.enabled
    /\ tape_recorder = t.rec
    /\ tape_wav_shared_position_tstates = t.shared
    /\ tape_log = NoTapeCall(t)

\* the ULA globals as the bundle the ULA functions work on
UlaState ==
    [queue |-> ula_write_queue, beeper_state |-> beeper_state,
     beeper |-> beeper, pushed |-> <<>>]

\* the ULA globals take the values of the bundle u
UlaCommit(u) ==
    /\ ula_write_queue' = u.queue
    /\ beeper_state' = u.beeper_state
    /\ beeper' = u.beeper

\* the beeper globals as their initialisers leave them (lines 44-54, 358-359)
BeeperStatics ==
    [events |-> <<>>, last_event_t_state |-> 0, playback_position |-> 0,
     writer_cursor |-> 0, playback_level |-> 0, cycles_per_sample |-> 0,
     max_latency_samples |-> 256, throttle_samples |-> 320,
     trim_samples |-> 512, hp_last_input |-> 0, hp_last_output_zero |-> TRUE]

\* init_sdl's audio part and main's reset before the loop: rate is the
\* sample rate the opened device reports, 0 when no device could be opened
audio_open(b, rate) ==
    IF rate = 0 THEN beeper_set_latency_limit(b, 256)
    ELSE beeper_set_latency_limit(
             [b EXCEPT !.cycles_per_sample = CPU_CLOCK_HZ \div rate],
             MaxOf(AUDIO_BUFFER_SAMPLES, 256))

\* a device rate that divides the CPU clock: 70 T-states per sample
DeviceRate == 50000
AudioRates == {0, DeviceRate}

UlaSetup(rate) ==
    [queue |-> <<>>, beeper_state |-> 0,
     beeper |-> beeper_reset_audio_state(audio_open(BeeperStatics, rate), 0, 0),
     pushed |-> <<>>]

NoAudio == UlaSetup(0)

NoUlaCall ==
    [call |-> "none", writes |-> <<>>, level |-> 0, before |-> BeeperStatics,
     pushed |-> <<>>, nwrites |-> 0, niter |-> 0, ncallbacks |-> 0,
     written |-> <<>>]

\* the ULA globals and the log at the start of a behaviour
UlaIs(u) ==
    /\ ula_write_queue = u.queue
    /\ beeper_state = u.beeper_state
    /\ beeper = u.beeper
    /\ ula_log = NoUlaCall

\* no tape file to convert
NoFile == [kind |-> "none", image |-> <<>>, samples |-> <<>>, sample_rate |-> 0]

NoConversion ==
    [call |-> "none",
     waveform |-> [pulses |-> <<>>, initial_level |-> 0, sample_rate |-> 0],
     block |-> 0, decoded |-> NoBlock, loaded |-> NoLoad]

\* the conversion input and result at the start of a behaviour
CodecIs(f) ==
    /\ codec_in = f
    /\ codec_out = NoConversion

NoRecCall ==
    [call |-> "none", before |-> NoRec, file |-> NoOutput, head |-> 0,
     t_state |-> 0, level |-> 0, ok |-> TRUE, nsessions |-> 0, nevents |-> 0,
     nticks |-> 0, nsaves |-> 0, changes |-> 0, first |-> 0, append |-> 0]

\* the output file and the log at the start of a behaviour
\* the audio device before init_sdl: closed, its lock free, the main thread
\* about to open it and no callback running
NoSdl ==
    [device |-> "closed", lock |-> "free", audio_available |-> 0,
     main |-> [at |-> "init_sdl", step |-> "enter"], callback |-> "idle"]

NoAccess ==
    [thread |-> "none", site |-> "none", device |-> "closed", lock |-> "free",
     callback |-> "idle", main |-> "enter", iterations |-> 0, callbacks |-> 0]

LockIs(s) ==
    /\ sdl = s
    /\ sdl_log = NoAccess

RecIs(file) ==
    /\ output_file = file
    /\ rec_log = NoRecCall

\* the bytes of a program, placed from address org on
Load(org, bytes) ==
    [a \in {Word(org + i - 1) : i \in 1..Len(bytes)} |->
        bytes[((a - org) % 65536) + 1]]

\* ------------------------------------------------------------------------
\* Set-ups: a CPU state and the data it expects in memory, as the unit
\* tests and main build them (cpu_reset_state, then fields and cells set)
\* ------------------------------------------------------------------------
\* largest BC a block-transfer set-up starts with
MaxCount == 3

\* main's reset state
ProfReset == [name |-> "reset", cpu |-> ResetCpu, data |-> <<>>]

\* test_interrupt_im2
ProfIm2 ==
    [name |-> "im2",
     cpu |-> [ResetCpu EXCEPT !.interruptMode = 2, !.reg_I = 128,
                              !.reg_SP = 65534, !.reg_PC = 4660],
     data |-> (33023 :> 120) @@ (33024 :> 86)]

\* stack straddling the ROM boundary, R about to leave seven bits
ProfEdge ==
    [name |-> "edge",
     cpu |-> [ResetCpu EXCEPT !.reg_R = 127, !.iff1 = 1, !.iff2 = 1,
                              !.reg_SP = 16385, !.reg_H = 63, !.reg_L = 255,
                              !.reg_D = 63, !.reg_E = 254, !.reg_C = 2,
                              !.reg_A = 165, !.reg_IX = 16384,
                              !.reg_IY = 16383, !.interruptMode = 0],
     data |-> (16383 :> 17) @@ (16384 :> 34)]

\* stack and pointers inside the ROM, vector table at the top of memory
ProfRom ==
    [name |-> "rom",
     cpu |-> [ResetCpu EXCEPT !.reg_R = 255, !.reg_SP = 2,
                              !.interruptMode = 2, !.reg_I = 255,
                              !.reg_A = 255, !.reg_B = 1, !.reg_F = 1,
                              !.reg_PC = 16],
     data |-> (65535 :> 0) @@ (0 :> 128)]

\* a block transfer of n bytes, and index registers over RAM data
ProfBlock(n, pc) ==
    [name |-> "block",
     cpu |-> [ResetCpu EXCEPT !.reg_R = 254, !.iff1 = 1, !.iff2 = 1,
                              !.reg_PC = pc, !.reg_SP = 65534,
                              !.reg_H = 64, !.reg_L = 0,
                              !.reg_D = 64, !.reg_E = 16,
                              !.reg_B = 0, !.reg_C = n, !.reg_A = 90,
                              !.reg_IX = 32768, !.reg_IY = 33024],
     data |-> (16384 :> 170) @@ (16385 :> 187) @@ (16386 :> 204)
              @@ (16387 :> 221) @@ (32768 :> 128) @@ (33024 :> 2)]

\* registers, index registers and the bytes they point at with different
\* bits 3 and 5: IX = 0xA800 over the byte 0x55, IY = 0x6000 over 0x0F,
\* HL = 0x4028 over 0x20
ProfBits(f) ==
    [name |-> "bits",
     cpu |-> [ResetCpu EXCEPT !.reg_R = 0, !.reg_PC = 0, !.reg_SP = 65534,
                              !.reg_F = f, !.reg_A = 255,
                              !.reg_B = 8, !.reg_C = 32,
                              !.reg_D = 40, !.reg_E = 0,
                              !.reg_H = 64, !.reg_L = 40,
                              !.reg_IX = 43008, !.reg_IY = 24576],
     data |-> (43008 :> 85) @@ (24576 :> 15) @@ (16424 :> 32)]

Profiles ==
    {ProfReset, ProfIm2, ProfEdge, ProfRom}
    \cup {ProfBlock(n, pc) : n \in 1..MaxCount, pc \in {0, 36864}}

Programs ==
    { <<251, 118, 0>>,            \* EI ; HALT ; NOP
      <<0>>,                      \* NOP
      <<118>>,                    \* HALT
      <<221, 118>>,               \* DD HALT
      <<243>>,                    \* DI
      <<251, 0, 251, 0>>,         \* EI ; NOP ; EI ; NOP
      <<251, 251, 0>>,            \* EI ; EI ; NOP
      <<251, 243, 0>>,            \* EI ; DI ; NOP
      <<237, 176>>,               \* LDIR
      <<237, 184>>,               \* LDDR
      <<237, 160, 237, 168>>,     \* LDI ; LDD
      <<221, 33, 52, 18>>,        \* LD IX,0x1234
      <<253, 221, 0>>,            \* FD DD NOP
      <<221, 253, 221, 33, 0, 128>>,  \* DD FD DD LD IX,0x8000
      <<203, 0>>,                 \* RLC B
      <<203, 6>>,                 \* RLC (HL)
      <<203, 198>>,               \* SET 0,(HL)
      <<203, 70>>,                \* BIT 0,(HL)
      <<221, 203, 0, 198>>,       \* SET 0,(IX+0)
      <<253, 203, 255, 6>>,       \* RLC (IY-1)
      <<62, 128, 237, 79, 0>>,    \* LD A,0x80 ; LD R,A ; NOP
      <<237, 95>>,                \* LD A,R
      <<237, 94, 237, 70>>,       \* IM 2 ; IM 0
      <<237, 0>>,                 \* ED 00 (no case in cpu_ed_step)
      <<237, 67, 255, 63>>,       \* LD (0x3FFF),BC
      <<119>>,                    \* LD (HL),A
      <<221, 119, 255>>,          \* LD (IX-1),A
      <<54, 85>>,                 \* LD (HL),0x55
      <<50, 0, 16, 50, 0, 80>>,   \* LD (0x1000),A ; LD (0x5000),A
      <<34, 255, 63>>,            \* LD (0x3FFF),HL
      <<52>>,                     \* INC (HL)
      <<221, 52, 0>>,             \* INC (IX+0)
      <<197, 245>>,               \* PUSH BC ; PUSH AF
      <<221, 229>>,               \* PUSH IX
      <<205, 0, 144>>,            \* CALL 0x9000
      <<255>>,                    \* RST 38h
      <<227>>,                    \* EX (SP),HL
      <<237, 77>>,                \* RETI
      <<49, 0, 64, 197>>          \* LD SP,0x4000 ; PUSH BC
    }

\* every DDCB / FDCB instruction, on displacement 0
IndexedBitPrograms ==
    {<<p, 203, 0, op>> : p \in {221, 253}, op \in 0..255}

\* every BIT b,r / BIT b,(HL) and every BIT b,(IX+0) / BIT b,(IY+0)
BitPrograms ==
    {<<203, op>> : op \in 64..127}
    \cup {<<p, 203, 0, op>> : p \in {221, 253}, op \in 64..127}

\* LDI, LDD, LDIR, LDDR
BlockPrograms == {<<237, 160>>, <<237, 168>>, <<237, 176>>, <<237, 184>>}

Setups ==
    {[prof |-> prof, prog |-> prog] : prof \in Profiles, prog \in Programs}
    \cup {[prof |-> ProfBlock(1, 0), prog |-> prog] :
             prog \in IndexedBitPrograms}
    \cup {[prof |-> ProfBits(f), prog |-> prog] :
             f \in {0, 255}, prog \in BitPrograms \cup BlockPrograms}

\* the data bus bytes a direct cpu_interrupt call is given
DataBus == {255, 0}

SetupMemory(su) == Load(su.prof.cpu.reg_PC, su.prog) @@ su.prof.data

Init ==
    \E su \in Setups :
        /\ cpu = su.prof.cpu
        /\ memory = SetupMemory(su)
        /\ total_t_states = 0
        /\ frame_t_state_accumulator = 0
        /\ last = NoCall
        /\ steps = 0
        /\ irqs = 0
        /\ throttles = 0
        /\ start = [name |-> su.prof.name, cpu |-> su.prof.cpu,
                    memory |-> SetupMemory(su), prog |-> su.prog]
        /\ TapeIs(NoTape)
        /\ UlaIs(NoAudio)
        /\ CodecIs(NoFile)
        /\ RecIs(NoOutput)
        /\ LockIs(NoSdl)

\* ------------------------------------------------------------------------
\* The harness calls cpu_step / cpu_interrupt directly, as the unit tests do
\* ------------------------------------------------------------------------
Step ==
    \E r \in {cpu_step(cpu, memory)} :
       /\ steps < MaxSteps
       /\ r.modelled
       /\ cpu' = r.cpu
       /\ memory' = r.memory
       /\ last' = [call |-> "step", t |-> r.t, op |-> r.op, sub |-> r.sub,
                   prefix |-> r.prefix, nprefix |-> r.nprefix,
                   irq |-> FALSE, data |-> 0, abort |-> r.abort]
       /\ steps' = steps + 1
       /\ UNCHANGED <<total_t_states, frame_t_state_accumulator, irqs, throttles,
                    start, tapeVars, ulaVars, codecVars, recVars, lockVars>>

Interrupt(data_bus) ==
    \E r \in {cpu_interrupt(cpu, memory, data_bus)} :
       /\ irqs < MaxInterrupts
       /\ cpu' = r.cpu
       /\ memory' = r.memory
       /\ last' = [call |-> "interrupt", t |-> r.t, op |-> -1, sub |-> -1,
                   prefix |-> 0, nprefix |-> 0, irq |-> TRUE,
                   data |-> data_bus, abort |-> FALSE]
       /\ irqs' = irqs + 1
       /\ UNCHANGED <<total_t_states, frame_t_state_accumulator, steps, throttles,
                    start, tapeVars, ulaVars, codecVars, recVars, lockVars>>

Next == Step \/ \E d \in DataBus : Interrupt(d)

Spec == Init /\ [][Next]_vars

\* ------------------------------------------------------------------------
\* The inner loop of main (lines 5706-5752)
\* ------------------------------------------------------------------------
\* ROM images main starts on; the rest of the memory array is zero
RomImages ==
    { <<0, 0, 0, 0, 0, 0, 251, 195, 6, 0>>,  \* 6 x NOP ; L: EI ; JP L
      <<251, 118, 0>>,                       \* EI ; HALT ; NOP
      <<0, 243, 251, 195, 1, 0>> }           \* NOP ; L: DI ; EI ; JP L

\* int t_states = cpu.halted ? 4 : cpu_step(&cpu);
main_step(c, mem) ==
    IF c.halted # 0
    THEN [cpu |-> c, memory |-> mem, t |-> 4, op |-> -1, sub |-> -1,
          prefix |-> 0, nprefix |-> 0, modelled |-> TRUE, abort |-> FALSE]
    ELSE cpu_step(c, mem)

\* the frame interrupt taken: r is what cpu_interrupt(&cpu, 0xFF) did
frame_interrupt(st, r) ==
    [cpu |-> r.cpu, memory |-> r.memory, total |-> st.total + r.t,
     frame |-> st.frame + r.t - T_STATES_PER_FRAME, irq |-> TRUE]

\* while (frame_t_state_accumulator >= T_STATES_PER_FRAME) { ... }
RECURSIVE frame_loop(_)
frame_loop(st) ==
    IF st.frame >= T_STATES_PER_FRAME
    THEN IF st.cpu.iff1 # 0
         THEN frame_loop(frame_interrupt(st,
                             cpu_interrupt(st.cpu, st.memory, 255)))
         ELSE frame_loop([st EXCEPT !.frame = @ - T_STATES_PER_FRAME])
    ELSE st

\* the clocks after the instruction, before the frame check
main_account(r, frame, total) ==
    [cpu |-> r.cpu, memory |-> r.memory, total |-> total + r.t,
     frame |-> frame + r.t, irq |-> FALSE]

\* the instruction's io_write calls reach the queue: they are stamped
\* ula_instruction_base_tstate + progress, base being total_t_states
RECURSIVE main_queue(_, _, _)
main_queue(u, writes, base) ==
    IF writes = <<>> THEN u
    ELSE main_queue(io_write(u, writes[1].port, writes[1].value,
                             base + writes[1].progress),
                    Tail(writes), base)

\* what the log keeps of ula_process_port_events: q is the bundle with the
\* instruction's writes queued; an empty queue returns at once
main_ula_log(q) ==
    IF Len(q.queue) = 0 THEN ula_log
    ELSE [ula_log EXCEPT !.call = "process", !.writes = q.queue,
                         !.level = beeper_state, !.before = q.beeper,
                         !.pushed = ula_process_port_events(q).pushed]

MainInit ==
    \E rom \in RomImages :
        /\ cpu = ResetCpu
        /\ memory = Load(0, rom)
        /\ total_t_states = 0
        /\ frame_t_state_accumulator = 0
        /\ last = NoCall
        /\ steps = 0
        /\ irqs = 0
        /\ throttles = 0
        /\ start = [name |-> "main", cpu |-> ResetCpu,
                    memory |-> Load(0, rom), prog |-> rom]
        /\ TapeIs(NoTape)
        /\ UlaIs(NoAudio)
        /\ CodecIs(NoFile)
        /\ RecIs(NoOutput)
        /\ LockIs(NoSdl)

\* one iteration of while (cycles_to_execute > 0); throttled says whether
\* the audio-latency poll breaks out of the loop before the frame check
MainIteration(throttled) ==
    \E r \in {main_step(step_ei(cpu), memory)} :
    \E q \in {main_queue(UlaState, cpu_step_writes(cpu, memory),
                         total_t_states)} :
    \E st \in {IF throttled
               THEN main_account(r, frame_t_state_accumulator, total_t_states)
               ELSE frame_loop(main_account(r, frame_t_state_accumulator,
                                            total_t_states))} :
       /\ steps < MaxIterations
       /\ r.modelled
       /\ throttled => throttles < MaxThrottles
       /\ cpu' = st.cpu
       /\ memory' = st.memory
       /\ total_t_states' = st.total
       /\ frame_t_state_accumulator' = st.frame
       /\ last' = [call |-> "main", t |-> r.t, op |-> r.op, sub |-> r.sub,
                   prefix |-> r.prefix, nprefix |-> r.nprefix,
                   irq |-> st.irq, data |-> 255, abort |-> r.abort]
       /\ steps' = steps + 1
       /\ throttles' = IF throttled THEN throttles + 1 ELSE throttles
       /\ TapeCommit(tape_update(TapeState, total_t_states + r.t))
       /\ UlaCommit(ula_process_port_events(q))
       /\ ula_log' = main_ula_log(q)
       /\ UNCHANGED <<irqs, start, tape_log, codecVars, recVars, lockVars>>

MainNext == \E throttled \in BOOLEAN : MainIteration(throttled)

SpecMain == MainInit /\ [][MainNext]_vars

\* ------------------------------------------------------------------------
\* The inner loop of main on programs that write to I/O ports
\* ------------------------------------------------------------------------
\* the DD/FD bytes in front of an OUT
OutPrefixes == {<<>>, <<221>>, <<253, 221>>}
\* the opcode the programs end on: CCF, where the model stops following
OutEnd == 63
\* the transfers of the block forms
OutRepeats == {2, 3}

\* LD A,v ; OUT (port),A ; LD A,16 ; <prefixes> OUT (port),A ; NOP ;
\* <prefixes> OUT (254),A
OutPrograms ==
    { <<62, value, 211, port, 62, 16>> \o pre \o <<211, port, 0>>
          \o pre \o <<211, 254, OutEnd>> :
        value \in {0, 16}, port \in {254, 255}, pre \in OutPrefixes }

\* LD BC,n*256+port ; LD HL,0 ; <prefixes> OUT (C),B ; OUT (C),0 ;
\* OUT (C),A ; OUTI ; OTIR ; LD B,n ; OUTD ; OTDR
OutBlockPrograms ==
    { <<1, port, n, 33, 0, 0>> \o pre
          \o <<237, 65, 237, 113, 237, 121, 237, 163, 237, 179, 6, n,
               237, 171, 237, 187, OutEnd>> :
        n \in OutRepeats, port \in {254, 255}, pre \in OutPrefixes }

\* where in the frame the programs start: its beginning, or so late that
\* the frame ends between two of their instructions
OutFrames == {0, T_STATES_PER_FRAME - 40}

OutInit ==
    \E rom \in OutPrograms \cup OutBlockPrograms, rate \in AudioRates,
       frame \in OutFrames :
        /\ cpu = ResetCpu
        /\ memory = Load(0, rom)
        /\ total_t_states = frame
        /\ frame_t_state_accumulator = frame
        /\ last = NoCall
        /\ steps = 0
        /\ irqs = 0
        /\ throttles = 0
        /\ start = [name |-> "out", cpu |-> ResetCpu,
                    memory |-> Load(0, rom), prog |-> rom]
        /\ TapeIs(NoTape)
        /\ UlaIs(UlaSetup(rate))
        /\ CodecIs(NoFile)
        /\ RecIs(NoOutput)
        /\ LockIs(NoSdl)

SpecOut == OutInit /\ [][MainNext]_vars

\* ------------------------------------------------------------------------
\* The tape deck driven as main drives it: the deck keys F5..F8 between
\* instructions, the clock and tape part of an iteration of the inner loop
\* (total_t_states += t_states; tape_update; tape_recorder_update), and
\* reads of an I/O port.  total_t_states is the time every call is given.
\* ------------------------------------------------------------------------
\* the clock value up to which SpecTape follows a tape
MaxTime == 16
\* deck key presses followed in one behaviour of SpecTape
MaxKeys == 2
\* T-states of the instructions between two tape updates
Ticks == {2, 5}
\* T-states the frame loop adds after the update: none, or those of an
\* accepted interrupt
FrameInterrupts == {0, interrupt_t_states(1)}
\* the ports read: the ULA port 0xFE and an odd port
Ports == {254, 255}

cpuVars == <<cpu, memory, frame_t_state_accumulator, last, steps, irqs,
             throttles, start>>

\* tape_recorder_update, as far as the deck sees it: a recording that
\* captured audio has something to save
tape_recorder_update(rec, captured) ==
    IF rec.recording # 0 /\ captured
    THEN [rec EXCEPT !.session_dirty = 1] ELSE rec

\* the toggles of a call, added to those of the run in progress
RunEdges(run, edges) ==
    IF run.active
    THEN [run EXCEPT !.edges = @ \o [i \in 1..Len(edges) |-> edges[i].time]]
    ELSE run

\* a tape is fresh when it is as tape_reset_playback leaves it: just
\* loaded by main, or rewound
Fresh(t) == tape_reset_playback(t) = t

TapeInit ==
    \E t \in TapeSetups :
        /\ cpu = ResetCpu
        /\ memory = Load(0, <<>>)
        /\ total_t_states = 0
        /\ frame_t_state_accumulator = 0
        /\ last = NoCall
        /\ steps = 0
        /\ irqs = 0
        /\ throttles = 0
        /\ start = [name |-> "tape", cpu |-> ResetCpu,
                    memory |-> Load(0, <<>>), prog |-> <<>>]
        /\ TapeIs(t)
        /\ UlaIs(NoAudio)
        /\ CodecIs(NoFile)
        /\ RecIs(NoOutput)
        /\ LockIs(NoSdl)

DeckPlay ==
    \E r \in {tape_deck_play(TapeState, total_t_states)} :
       /\ tape_log.keys < MaxKeys
       /\ TapeCommit(r)
       /\ tape_log' =
            [call |-> "play", now |-> total_t_states, port |-> 0,
             result |-> 255, edges |-> <<>>, keys |-> tape_log.keys + 1,
             run |-> IF tape_playback.playing = 0 /\ r.pb.playing # 0
                     THEN [active |-> Fresh(TapeState),
                           start |-> total_t_states, edges |-> <<>>]
                     ELSE [tape_log.run EXCEPT !.active = FALSE]]
       /\ UNCHANGED <<cpuVars, ulaVars, codecVars, recVars, lockVars, total_t_states>>

DeckStop ==
    \E captured \in BOOLEAN, written \in BOOLEAN, reloaded \in Reloads :
    \E r \in {tape_deck_stop(TapeState, total_t_states, captured, written,
                             reloaded)} :
       /\ tape_log.keys < MaxKeys
       /\ TapeCommit(r)
       /\ tape_log' =
            [call |-> "stop", now |-> total_t_states, port |-> 0,
             result |-> 255, edges |-> <<>>, keys |-> tape_log.keys + 1,
             run |-> [tape_log.run EXCEPT !.active = FALSE]]
       /\ UNCHANGED <<cpuVars, ulaVars, codecVars, recVars, lockVars, total_t_states>>

DeckRewind ==
    \E captured \in BOOLEAN, written \in BOOLEAN, reloaded \in Reloads :
    \E r \in {tape_deck_rewind(TapeState, total_t_states, captured, written,
                               reloaded)} :
       /\ tape_log.keys < MaxKeys
       /\ TapeCommit(r)
       /\ tape_log' =
            [call |-> "rewind", now |-> total_t_states, port |-> 0,
             result |-> 255, edges |-> <<>>, keys |-> tape_log.keys + 1,
             run |-> [tape_log.run EXCEPT !.active = FALSE]]
       /\ UNCHANGED <<cpuVars, ulaVars, codecVars, recVars, lockVars, total_t_states>>

DeckRecord ==
    \E prepared \in BOOLEAN, truncate \in BOOLEAN :
    \E r \in {tape_deck_record(TapeState, total_t_states, prepared,
                               truncate)} :
       /\ tape_log.keys < MaxKeys
       /\ TapeCommit(r)
       /\ tape_log' =
            [call |-> "record", now |-> total_t_states, port |-> 0,
             result |-> 255, edges |-> <<>>, keys |-> tape_log.keys + 1,
             run |-> [tape_log.run EXCEPT !.active = FALSE]]
       /\ UNCHANGED <<cpuVars, ulaVars, codecVars, recVars, lockVars, total_t_states>>

\* irq_t_states is what the frame loop adds to the clock after the
\* tape update when the iteration ends a frame with interrupts enabled
TapeTick(t_states, irq_t_states) ==
    \E captured \in BOOLEAN :
    \E r \in {tape_update(TapeState, total_t_states + t_states)} :
       /\ total_t_states + t_states + irq_t_states <= MaxTime
       /\ total_t_states' = total_t_states + t_states + irq_t_states
       /\ TapeCommit([r EXCEPT !.rec = tape_recorder_update(@, captured)])
       /\ tape_log' =
            [call |-> "update", now |-> total_t_states + t_states,
             port |-> 0, result |-> 255, edges |-> r.edges,
             keys |-> tape_log.keys,
             run |-> RunEdges(tape_log.run, r.edges)]
       /\ UNCHANGED <<cpuVars, ulaVars, codecVars, recVars, lockVars>>

PortRead(port) ==
    \E captured \in BOOLEAN :
    \E r \in {io_read(TapeState, port, total_t_states)} :
       /\ TapeCommit([r.tape EXCEPT
                        !.rec = IF port % 2 = 0
                                THEN tape_recorder_update(@, captured)
                                ELSE @])
       /\ tape_log' =
            [call |-> "read", now |-> total_t_states, port |-> port,
             result |-> r.result, edges |-> r.tape.edges,
             keys |-> tape_log.keys,
             run |-> RunEdges(tape_log.run, r.tape.edges)]
       /\ UNCHANGED <<cpuVars, ulaVars, codecVars, recVars, lockVars, total_t_states>>

TapeNext ==
    \/ DeckPlay
    \/ DeckStop
    \/ DeckRewind
    \/ DeckRecord
    \/ \E t_states \in Ticks, irq_t_states \in FrameInterrupts :
          TapeTick(t_states, irq_t_states)
    \/ \E port \in Ports : PortRead(port)

SpecTape == TapeInit /\ [][TapeNext]_vars

\* ------------------------------------------------------------------------
\* The ULA port and the beeper driven as main and the audio thread drive
\* them: port writes made by an instruction or by a direct io_write call,
\* the clock and ULA part of an iteration of the inner loop
\* (total_t_states += t; ula_process_port_events), and the audio callback,
\* which the audio thread runs between any two beeper calls.
\* ------------------------------------------------------------------------
\* port writes, loop iterations and audio callbacks followed in one
\* behaviour of SpecUla
MaxWrites == 3
MaxUlaIterations == 3
MaxCallbacks == 2
\* T-states one iteration adds to the clock: a short instruction, and
\* longer stretches of emulated time
UlaTicks == {4, 96, 71200}
\* T-states the instruction in progress has counted when it writes: 0 for
\* a write outside cpu_step, 4 for OUT (n),A and for the ED-prefixed OUTs
Progress == {0, 4}
\* the bytes written: the speaker bit clear, set, and set with MIC
PortValues == {0, 16, 24}

nonUlaVars == <<cpu, memory, frame_t_state_accumulator, last, steps, irqs,
                throttles, start, tapeVars, codecVars, recVars, lockVars>>

UlaInit ==
    \E rate \in AudioRates :
        /\ cpu = ResetCpu
        /\ memory = Load(0, <<>>)
        /\ total_t_states = 0
        /\ frame_t_state_accumulator = 0
        /\ last = NoCall
        /\ steps = 0
        /\ irqs = 0
        /\ throttles = 0
        /\ start = [name |-> "ula", cpu |-> ResetCpu,
                    memory |-> Load(0, <<>>), prog |-> <<>>]
        /\ TapeIs(NoTape)
        /\ UlaIs(UlaSetup(rate))
        /\ CodecIs(NoFile)
        /\ RecIs(NoOutput)
        /\ LockIs(NoSdl)

UlaWrite(port, value, progress) ==
    /\ ula_log.nwrites < MaxWrites
    /\ UlaCommit(io_write(UlaState, port, value, total_t_states + progress))
    /\ ula_log' = [ula_log EXCEPT
                      !.call = "write", !.nwrites = @ + 1,
                      !.written =
                          IF port % 2 = 0
                          THEN Append(@, [value |-> value,
                                          t_state |-> total_t_states + progress])
                          ELSE @]
    /\ UNCHANGED <<nonUlaVars, total_t_states>>

UlaIterate(t_states) ==
    \E r \in {ula_process_port_events(UlaState)} :
       /\ ula_log.niter < MaxUlaIterations
       /\ total_t_states' = total_t_states + t_states
       /\ UlaCommit(r)
       /\ ula_log' = [ula_log EXCEPT !.call = "process",
                                     !.writes = ula_write_queue,
                                     !.level = beeper_state,
                                     !.before = beeper,
                                     !.pushed = r.pushed,
                                     !.written = <<>>,
                                     !.niter = @ + 1]
       /\ UNCHANGED nonUlaVars

AudioCallback ==
    /\ ula_log.ncallbacks < MaxCallbacks
    /\ beeper.cycles_per_sample > 0
    /\ beeper' = audio_callback(beeper, AUDIO_BUFFER_SAMPLES)
    /\ ula_log' = [ula_log EXCEPT !.call = "audio", !.ncallbacks = @ + 1]
    /\ UNCHANGED <<nonUlaVars, total_t_states, ula_write_queue, beeper_state>>

UlaNext ==
    \/ \E port \in Ports, value \in PortValues, progress \in Progress :
          UlaWrite(port, value, progress)
    \/ \E t_states \in UlaTicks : UlaIterate(t_states)
    \/ AudioCallback

SpecUla == UlaInit /\ [][UlaNext]_vars

\* ------------------------------------------------------------------------
\* The tape conversions applied to tape files: a TAP image is synthesized
\* into a waveform and the pulses of one of its blocks are given to the
\* recorder's decoder; the samples of a WAV file are loaded.
\* ------------------------------------------------------------------------
\* a 19-byte header block (flag 0x00) as the ROM saves it
HeaderPayload ==
    <<0, 3, 116, 101, 115, 116, 32, 32, 32, 32, 32, 32, 3, 0, 0, 128, 3, 0,
      131>>
Payloads ==
    {<<>>, <<0>>, <<255>>, <<128>>, <<0, 165>>, <<255, 90, 1>>, HeaderPayload}
Pauses == {0, 1000}
Blocks == {[data |-> d, pause_ms |-> p] : d \in Payloads, p \in Pauses}
\* the blocks that follow the first one of a two-block image
SecondBlocks ==
    {[data |-> <<255, 90, 1>>, pause_ms |-> 0],
     [data |-> <<0>>, pause_ms |-> 1000]}
Images ==
    {<<b>> : b \in Blocks} \cup {<<b, c>> : b \in Blocks, c \in SecondBlocks}

\* the longest data chunk of a WAV file, in samples
MaxSamples == 4
SampleValues == {-1, 0, 1}
SampleRates == {44100, 3500000, 14000000}
WavSamples ==
    UNION {[1..n -> SampleValues] : n \in 0..MaxSamples}

\* the blocks of the TZX files explored: standard-speed blocks, a pause
\* block (ID 0x20) and a text description (ID 0x30)
TzxBlocks ==
    {[id |-> TZX_STANDARD_BLOCK, pause_ms |-> 1000, data |-> <<255, 90, 1>>],
     [id |-> TZX_STANDARD_BLOCK, pause_ms |-> 0, data |-> <<>>],
     [id |-> 32, pause_ms |-> 0, data |-> <<>>],
     [id |-> 48, pause_ms |-> 0, data |-> <<>>]}
MaxTzxBlocks == 2
TzxImages == UNION {[1..n -> TzxBlocks] : n \in 0..MaxTzxBlocks}

TapeFiles ==
    {[kind |-> "image", image |-> i, samples |-> <<>>, sample_rate |-> 0] :
        i \in Images}
    \cup {[kind |-> "wav", image |-> <<>>, samples |-> w, sample_rate |-> r] :
             w \in WavSamples, r \in SampleRates}
    \cup {[kind |-> "tzx", image |-> i, samples |-> <<>>, sample_rate |-> 0] :
             i \in TzxImages}

\* the pulses synthesized for block block_index (1-based) of the image
BlockPulses(image, waveform, block_index) ==
    SubSeq(waveform.pulses,
           Len(generate_from(SubSeq(image, 1, block_index - 1), 1, 0, <<>>)) + 1,
           Len(generate_from(SubSeq(image, 1, block_index), 1, 0, <<>>)))

nonCodecVars == <<cpu, memory, total_t_states, frame_t_state_accumulator, last,
                  steps, irqs, throttles, start, tapeVars, ulaVars, recVars, lockVars>>

CodecInit ==
    \E f \in TapeFiles :
        /\ cpu = ResetCpu
        /\ memory = Load(0, <<>>)
        /\ total_t_states = 0
        /\ frame_t_state_accumulator = 0
        /\ last = NoCall
        /\ steps = 0
        /\ irqs = 0
        /\ throttles = 0
        /\ start = [name |-> "codec", cpu |-> ResetCpu,
                    memory |-> Load(0, <<>>), prog |-> <<>>]
        /\ TapeIs(NoTape)
        /\ UlaIs(NoAudio)
        /\ CodecIs(f)
        /\ RecIs(NoOutput)
        /\ LockIs(NoSdl)

Synthesize ==
    /\ codec_in.kind = "image"
    /\ codec_out.call = "none"
    /\ codec_out' =
         [codec_out EXCEPT
            !.call = "synthesize",
            !.waveform = tape_generate_waveform_from_image(codec_in.image)]
    /\ UNCHANGED <<nonCodecVars, codec_in>>

Decode(block_index) ==
    /\ codec_out.call = "synthesize"
    /\ block_index <= Len(codec_in.image)
    /\ codec_out' =
         [codec_out EXCEPT
            !.call = "decode",
            !.block = block_index,
            !.decoded =
                tape_decode_pulses_to_block(
                    BlockPulses(codec_in.image, codec_out.waveform,
                                block_index),
                    codec_in.image[block_index].pause_ms)]
    /\ UNCHANGED <<nonCodecVars, codec_in>>

LoadWav ==
    /\ codec_in.kind = "wav"
    /\ codec_out.call = "none"
    /\ codec_out' =
         [codec_out EXCEPT
            !.call = "load",
            !.waveform = tape_load_wav(codec_in.samples, codec_in.sample_rate)]
    /\ UNCHANGED <<nonCodecVars, codec_in>>

LoadTzx ==
    /\ codec_in.kind = "tzx"
    /\ codec_out.call = "none"
    /\ codec_out' =
         [codec_out EXCEPT
            !.call = "load_tzx",
            !.loaded = main_load_image(tape_load_tzx(codec_in.image))]
    /\ UNCHANGED <<nonCodecVars, codec_in>>

CodecNext ==
    \/ Synthesize
    \/ \E block_index \in 1..2 : Decode(block_index)
    \/ LoadWav
    \/ LoadTzx

SpecCodec == CodecInit /\ [][CodecNext]_vars

\* ------------------------------------------------------------------------
\* Block-mode playback: the tape functions driven on a playback state that
\* holds a TAP image and has use_waveform_playback = 0, as its initialiser
\* leaves it.  main itself synthesizes a waveform for every image it loads,
\* so this is the contract of the functions, exercised as a unit test
\* would: PLAY at time 0, then tape_update at or shortly after each time
\* the playback state is waiting for.
\* ------------------------------------------------------------------------
\* a TAP tape played from its blocks
TapTape(image) ==
    tape_reset_playback(
        [NoTape EXCEPT !.pb = [@ EXCEPT !.format = "TAP", !.image = image],
                       !.enabled = 1])

BlockImages ==
    {<<[data |-> <<255>>, pause_ms |-> 0]>>,
     <<[data |-> <<>>, pause_ms |-> 1000]>>,
     <<[data |-> <<255, 90>>, pause_ms |-> 1000],
       [data |-> <<0>>, pause_ms |-> 0]>>}

\* how long after the awaited time tape_update is called
Lateness == {0, 5000}

\* the time block-mode playback is waiting for
next_event(pb) ==
    IF pb.phase = "PAUSE" THEN pb.pause_end_tstate
    ELSE pb.next_transition_tstate

\* the toggles so far as runs of toggles made in one phase of one block
AddEdge(segments, e) ==
    IF segments # <<>>
       /\ segments[Len(segments)].block = e.block
       /\ segments[Len(segments)].phase = e.phase
    THEN [segments EXCEPT ![Len(segments)].toggles = @ + 1]
    ELSE Append(segments, [block |-> e.block, phase |-> e.phase, toggles |-> 1])

RECURSIVE AddEdges(_, _, _)
AddEdges(segments, edges, i) ==
    IF i > Len(edges) THEN segments
    ELSE AddEdges(AddEdge(segments, edges[i]), edges, i + 1)

BlockInit ==
    \E image \in BlockImages :
        /\ cpu = ResetCpu
        /\ memory = Load(0, <<>>)
        /\ total_t_states = 0
        /\ frame_t_state_accumulator = 0
        /\ last = NoCall
        /\ steps = 0
        /\ irqs = 0
        /\ throttles = 0
        /\ start = [name |-> "block", cpu |-> ResetCpu,
                    memory |-> Load(0, <<>>), prog |-> <<>>]
        /\ TapeIs(TapTape(image))
        /\ UlaIs(NoAudio)
        /\ CodecIs(NoFile)
        /\ RecIs(NoOutput)
        /\ LockIs(NoSdl)

BlockPlay ==
    \E r \in {tape_deck_play(TapeState, total_t_states)} :
       /\ tape_playback.playing = 0
       /\ tape_playback.phase = "IDLE"
       /\ TapeCommit(r)
       /\ tape_log' = [tape_log EXCEPT !.call = "play",
                                       !.now = total_t_states,
                                       !.edges = <<>>,
                                       !.keys = @ + 1]
       /\ UNCHANGED <<cpuVars, ulaVars, codecVars, recVars, lockVars, total_t_states>>

BlockUpdate(late) ==
    \E r \in {tape_update(TapeState, next_event(tape_playback) + late)} :
       /\ tape_playback.playing # 0
       /\ total_t_states' = next_event(tape_playback) + late
       /\ TapeCommit(r)
       /\ tape_log' =
            [tape_log EXCEPT
               !.call = "update",
               !.now = next_event(tape_playback) + late,
               !.edges = r.edges,
               !.run = [@ EXCEPT !.edges = AddEdges(@, r.edges, 1)]]
       /\ UNCHANGED <<cpuVars, ulaVars, codecVars, recVars, lockVars>>

BlockNext ==
    \/ BlockPlay
    \/ \E late \in Lateness : BlockUpdate(late)

SpecBlock == BlockInit /\ [][BlockNext]_vars

\* ------------------------------------------------------------------------
\* The two playback modes side by side: a TAP image played from its blocks
\* (use_waveform_playback = 0) and from the waveform main synthesizes for
\* it when it loads it (use_waveform_playback = 1), both started by
\* tape_start_playback at the same time and updated at or shortly after
\* each time the playback state is waiting for.  start.prog keeps the
\* synthesized pulses in both modes; tape_log.run.edges counts the toggles
\* and tape_log.run.start is the time of the last one, the start time
\* before the first.
\* ------------------------------------------------------------------------
\* the time playback is started at
ModesStartTime == 1000

\* the image as main leaves it loaded for the mode
ModeTape(image, waveform_mode) ==
    IF waveform_mode
    THEN tape_reset_playback(
             [TapTape(image) EXCEPT
                 !.pb = [@ EXCEPT
                           !.waveform =
                               tape_generate_waveform_from_image(image),
                           !.use_waveform_playback = 1]])
    ELSE TapTape(image)

RECURSIVE Toggles(_)
Toggles(segments) ==
    IF segments = <<>> THEN 0
    ELSE segments[1].toggles + Toggles(Tail(segments))

ModesInit ==
    \E image \in BlockImages, waveform_mode \in BOOLEAN :
        /\ cpu = ResetCpu
        /\ memory = Load(0, <<>>)
        /\ total_t_states = ModesStartTime
        /\ frame_t_state_accumulator = 0
        /\ last = NoCall
        /\ steps = 0
        /\ irqs = 0
        /\ throttles = 0
        /\ start = [name |-> "modes", cpu |-> ResetCpu,
                    memory |-> Load(0, <<>>),
                    prog |-> tape_generate_waveform_from_image(image).pulses]
        /\ TapeIs(ModeTape(image, waveform_mode))
        /\ UlaIs(NoAudio)
        /\ CodecIs(NoFile)
        /\ RecIs(NoOutput)
        /\ LockIs(NoSdl)

ModesStart ==
    \E r \in {tape_start_playback(TapeState, total_t_states)} :
       /\ tape_log.keys = 0
       /\ TapeCommit(r)
       /\ tape_log' = [tape_log EXCEPT
                         !.call = "play", !.now = total_t_states,
                         !.edges = <<>>, !.keys = 1,
                         !.run = [active |-> TRUE, start |-> total_t_states,
                                  edges |-> <<>>]]
       /\ UNCHANGED <<cpuVars, ulaVars, codecVars, recVars, lockVars,
                      total_t_states>>

ModesUpdate(late) ==
    \E r \in {tape_update(TapeState, next_event(tape_playback) + late)} :
       /\ tape_playback.playing # 0
       /\ total_t_states' = next_event(tape_playback) + late
       /\ TapeCommit(r)
       /\ tape_log' =
            [tape_log EXCEPT
               !.call = "update",
               !.now = next_event(tape_playback) + late,
               !.edges = r.edges,
               !.run = [@ EXCEPT
                          !.edges = AddEdges(@, r.edges, 1),
                          !.start = IF r.edges = <<>> THEN @
                                    ELSE r.edges[Len(r.edges)].time]]
       /\ UNCHANGED <<cpuVars, ulaVars, codecVars, recVars, lockVars>>

ModesNext ==
    \/ ModesStart
    \/ \E late \in Lateness : ModesUpdate(late)

SpecModes == ModesInit /\ [][ModesNext]_vars

\* ------------------------------------------------------------------------
\* One playback session under update, pause and resume: a WAV tape played
\* from its waveform, and a TAP image played from its blocks, followed from
\* the last pulse of the first block's pilot tone on.
\* ------------------------------------------------------------------------
\* a block without a pause after it, followed by another block
SessionImage ==
    <<[data |-> <<255>>, pause_ms |-> 0], [data |-> <<255>>, pause_ms |-> 0]>>

\* the pilot pulses of the first block played before the session is followed
SessionPilot == TAPE_DATA_PILOT_COUNT - 1
\* T-states a session is followed for
SessionSpan == 40000
\* pauses followed in one session
MaxPauses == 1
\* how long after the awaited time the clock stands at an update
SessionLateness == {0, 100}

\* pilot pulses between two updates while the pilot tone is played
SessionStride == 8

\* tape t, updated at the end of pilot pulse from, after a tape_update
\* every SessionStride pilot pulses or less up to the end of pulse to
RECURSIVE SessionRun(_, _, _)
SessionRun(t, from, to) ==
    IF to - from <= SessionStride
    THEN tape_update(t, to * TAPE_PILOT_PULSE_TSTATES)
    ELSE CHOOSE r \in {SessionRun(half, (from + to) \div 2, to) :
                         half \in {SessionRun(t, from, (from + to) \div 2)}} :
             TRUE

\* PLAY at 0 and the pilot tone up to the end of pulse n
SessionPlayed(n) ==
    SessionRun(tape_deck_play(TapTape(SessionImage), 0), 0, n)

SessionSetups ==
    {[tape |-> WavTape(w), clock |-> 0] :
        w \in {[pulses |-> <<4, 2, 6>>, initial_level |-> 0,
                sample_rate |-> WavSampleRate]}}
    \cup {[tape |-> SessionPlayed(SessionPilot),
            clock |-> SessionPilot * TAPE_PILOT_PULSE_TSTATES]}

SessionInit ==
    \E s \in SessionSetups :
        /\ cpu = ResetCpu
        /\ memory = Load(0, <<>>)
        /\ total_t_states = s.clock
        /\ frame_t_state_accumulator = 0
        /\ last = NoCall
        /\ steps = 0
        /\ irqs = 0
        /\ throttles = 0
        /\ start = [name |-> "session", cpu |-> ResetCpu,
                    memory |-> Load(0, <<>>), prog |-> <<>>]
        /\ TapeIs(s.tape)
        /\ UlaIs(NoAudio)
        /\ CodecIs(NoFile)
        /\ RecIs(NoOutput)
        /\ LockIs(NoSdl)

\* tape_resume_playback at the clock: the first call starts the session
SessionResume ==
    \E r \in {tape_resume_playback(TapeState, total_t_states)} :
       /\ tape_playback.playing = 0
       /\ r.pb.playing # 0
       /\ TapeCommit(r)
       /\ tape_log' = [tape_log EXCEPT !.call = "resume",
                                       !.now = total_t_states,
                                       !.edges = <<>>]
       /\ UNCHANGED <<cpuVars, ulaVars, codecVars, recVars, lockVars,
                      total_t_states>>

SessionPause ==
    \E r \in {tape_pause_playback(TapeState, total_t_states)} :
       /\ tape_playback.playing # 0
       /\ tape_log.keys < MaxPauses
       /\ TapeCommit(r)
       /\ tape_log' = [tape_log EXCEPT !.call = "pause",
                                       !.now = total_t_states,
                                       !.edges = <<>>,
                                       !.keys = @ + 1]
       /\ UNCHANGED <<cpuVars, ulaVars, codecVars, recVars, lockVars,
                      total_t_states>>

\* the time of the next update: late after the awaited time while the tape
\* plays, late after the clock while it stands
session_now(late) ==
    IF tape_playback.playing # 0
    THEN MaxOf(total_t_states, next_event(tape_playback) + late)
    ELSE total_t_states + late

\* an iteration of main's loop: tape_update at now, then the T-states of
\* an accepted frame interrupt; a paused tape is followed for one iteration
SessionUpdate(late, irq_t_states) ==
    \E r \in {tape_update(TapeState, session_now(late))} :
       /\ tape_playback.playing = 0 => tape_log.call = "pause" /\ late > 0
       /\ session_now(late) + irq_t_states
             <= SessionSpan
                + (IF tape_playback.format = "WAV" THEN 0
                   ELSE SessionPilot * TAPE_PILOT_PULSE_TSTATES)
       /\ total_t_states' = session_now(late) + irq_t_states
       /\ TapeCommit(r)
       /\ tape_log' = [tape_log EXCEPT !.call = "update",
                                       !.now = session_now(late),
                                       !.edges = r.edges]
       /\ UNCHANGED <<cpuVars, ulaVars, codecVars, recVars, lockVars>>

SessionNext ==
    \/ SessionResume
    \/ SessionPause
    \/ \E late \in SessionLateness, irq_t_states \in FrameInterrupts :
          SessionUpdate(late, irq_t_states)

SpecSession == SessionInit /\ [][SessionNext]_vars

\* ------------------------------------------------------------------------
\* The recorder driven as main drives it: RECORD and STOP keys
\* (tape_deck_record, tape_deck_stop), MIC edges from port writes
\* (ula_process_port_events, line 5808), the update of every loop
\* iteration (line 5728), and a program that saves a block, delivered as
\* one run of edges that stands for the whole budget of edges.  Edges and
\* updates outside a session return at once (lines 3606, 3637) and are
\* left out.  The file operations succeed.  Two port writes come from two
\* instructions, so an edge inside a block is later than the one before
\* it.
\* ------------------------------------------------------------------------
MaxSessions == 2
MaxMicEvents == 3
MaxTicks == 1
MaxSaves == 1

\* T-states from one call to the next
MicDelays == {0, 17500}
TickDelays == {100000, 350000}
\* head positions of the shared WAV tape when RECORD is pressed: the
\* start, two samples in at 44100 Hz, and past the end of every file
Heads == {0, 159, 1000000}

\* the files found at the output path: none, one that is no WAV file, a
\* 16-bit file of three samples, the same with a LIST chunk of twelve bytes
\* behind the data chunk, and an 8-bit file of four samples at 22050 Hz
Samples16 == <<[value |-> 100, count |-> 2], [value |-> -100, count |-> 1]>>
ListChunk ==
    <<[value |-> 18764, count |-> 1], [value |-> 21587, count |-> 1],
      [value |-> 4, count |-> 1], [value |-> 0, count |-> 3]>>
Samples8 == <<[value |-> 255, count |-> 2], [value |-> 0, count |-> 2]>>
OutputFiles ==
    {NoOutput, JunkFile,
     WavFile(16, 44100, Samples16, 3),
     WavFile(16, 44100, Samples16 \o ListChunk, 3),
     WavFile(8, 22050, Samples8, 4)}

\* the pulse trains a program saves: a one-byte block behind a leader of
\* 120 pilot pulses, and a leader alone
ShortLeader == [i \in 1..120 |-> TAPE_PILOT_PULSE_TSTATES]
SavedTrains ==
    {ShortLeader
         \o <<TAPE_SYNC_FIRST_PULSE_TSTATES, TAPE_SYNC_SECOND_PULSE_TSTATES>>
         \o data_pulses(<<255>>),
     ShortLeader}

nonRecVars == <<cpu, memory, frame_t_state_accumulator, last, steps, irqs, throttles, start, tape_playback, tape_ear_state, tape_input_enabled, tape_log, ulaVars, codecVars, lockVars>>

RecState ==
    RecBundle(tape_recorder, output_file, tape_wav_shared_position_tstates)

RecCommit(s) ==
    /\ tape_recorder' = s.rec
    /\ output_file' = s.file
    /\ tape_wav_shared_position_tstates' = s.shared

RecInit ==
    \E format \in {"WAV", "TAP"}, file \in OutputFiles, head \in Heads :
        /\ format = "TAP" => head = 0
        /\ cpu = ResetCpu
        /\ memory = Load(0, <<>>)
        /\ total_t_states = 0
        /\ frame_t_state_accumulator = 0
        /\ last = NoCall
        /\ steps = 0
        /\ irqs = 0
        /\ throttles = 0
        /\ start = [name |-> "recorder", cpu |-> ResetCpu,
                    memory |-> Load(0, <<>>), prog |-> <<>>]
        /\ TapeIs([NoTape EXCEPT !.rec = recorder_enable(format, 44100),
                                 !.shared = head])
        /\ UlaIs(NoAudio)
        /\ CodecIs(NoFile)
        /\ RecIs(file)
        /\ LockIs(NoSdl)

RecStart(append_mode) ==
    \E s \in {recorder_start_session(RecState, total_t_states, append_mode)} :
       /\ rec_log.nsessions < MaxSessions
       /\ RecCommit(s)
       /\ rec_log' =
            [rec_log EXCEPT
                !.call = "start", !.before = tape_recorder,
                !.file = IF s.ok THEN output_file ELSE @,
                !.head = IF s.ok THEN tape_wav_shared_position_tstates
                         ELSE @,
                !.ok = s.ok, !.nsessions = @ + 1, !.append = append_mode,
                !.changes = IF s.rec.block_active = 0 THEN 0 ELSE @]
       /\ UNCHANGED <<nonRecVars, total_t_states>>

RecMic(delay, level) ==
    /\ tape_recorder.recording # 0
    /\ rec_log.nevents < MaxMicEvents
    /\ delay > 0 \/ tape_recorder.block_active = 0
    /\ total_t_states' = total_t_states + delay
    /\ tape_recorder' =
         tape_recorder_handle_mic(tape_recorder, total_t_states + delay, level)
    /\ rec_log' =
         [rec_log EXCEPT
            !.call = "mic", !.before = tape_recorder,
            !.t_state = total_t_states + delay, !.level = level,
            !.nevents = @ + 1,
            !.changes = IF tape_recorder.block_active = 0 THEN 0
                        ELSE IF level # rec_log.level THEN @ + 1 ELSE @]
    /\ UNCHANGED <<nonRecVars, output_file, tape_wav_shared_position_tstates>>

RecSave(train, level) ==
    /\ tape_recorder.recording # 0
    /\ rec_log.nsaves < MaxSaves
    /\ rec_log.nevents = 0
    /\ total_t_states' = total_t_states + 1 + SumRange(train, 1, Len(train))
    /\ tape_recorder' =
         mic_train(tape_recorder, total_t_states + 1, level, train, 0,
                   Len(train))
    /\ rec_log' =
         [rec_log EXCEPT
            !.call = "save", !.before = tape_recorder,
            !.t_state = total_t_states + 1 + SumRange(train, 1, Len(train)),
            !.level = (level + Len(train)) % 2,
            !.nsaves = @ + 1, !.nevents = MaxMicEvents,
            !.changes = Len(train)
                        + (IF tape_recorder.block_active = 0 THEN 0
                           ELSE IF level # rec_log.level THEN @ + 1 ELSE @)]
    /\ UNCHANGED <<nonRecVars, output_file, tape_wav_shared_position_tstates>>

RecTick(delay) ==
    \E r \in {recorder_update(tape_recorder, total_t_states + delay, 0)} :
       /\ tape_recorder.recording # 0
       /\ rec_log.nticks < MaxTicks
       /\ total_t_states' = total_t_states + delay
       /\ tape_recorder' = r
       /\ rec_log' =
            [rec_log EXCEPT
                !.call = "update", !.before = tape_recorder,
                !.t_state = total_t_states + delay, !.nticks = @ + 1,
                !.changes = IF r.block_active = 0 THEN 0 ELSE @]
       /\ UNCHANGED <<nonRecVars, output_file,
                      tape_wav_shared_position_tstates>>

RecStop ==
    \E s \in {recorder_stop_session(RecState, total_t_states, 1)} :
       /\ rec_log.call # "stop"
       /\ RecCommit(s)
       /\ rec_log' =
            [rec_log EXCEPT
                !.call = "stop", !.before = tape_recorder,
                !.t_state = total_t_states, !.ok = TRUE, !.changes = 0]
       /\ UNCHANGED <<nonRecVars, total_t_states>>

RecNext ==
    \/ \E append_mode \in {0, 1} : RecStart(append_mode)
    \/ \E delay \in MicDelays, level \in {0, 1} : RecMic(delay, level)
    \/ \E train \in SavedTrains, level \in {0, 1} : RecSave(train, level)
    \/ \E delay \in TickDelays : RecTick(delay)
    \/ RecStop

SpecRecorder == RecInit /\ [][RecNext]_vars

\* ------------------------------------------------------------------------
\* The audio lock: the main thread and SDL's audio thread, one step per
\* lock call and per access to the beeper's shared state (the ring's head
\* and tail, playback_position, writer_cursor, beeper_last_event_t_state and
\* the filter state).  SDL runs audio_callback with the device lock held and
\* only while the device is open and not paused.
\* ------------------------------------------------------------------------
MaxLoopCalls == 3
MaxLockCallbacks == 2

\* the sections of the main thread that touch the shared state
LockSections == {"main_reset", "push", "latency"}

nonLockVars == <<cpu, memory, total_t_states, frame_t_state_accumulator, last, steps, irqs, throttles, start, tapeVars, ulaVars, codecVars, recVars>>

LockInit ==
    /\ cpu = ResetCpu
    /\ memory = Load(0, <<>>)
    /\ total_t_states = 0
    /\ frame_t_state_accumulator = 0
    /\ last = NoCall
    /\ steps = 0
    /\ irqs = 0
    /\ throttles = 0
    /\ start = [name |-> "lock", cpu |-> ResetCpu,
                memory |-> Load(0, <<>>), prog |-> <<>>]
    /\ TapeIs(NoTape)
    /\ UlaIs(NoAudio)
    /\ CodecIs(NoFile)
    /\ RecIs(NoOutput)
    /\ LockIs(NoSdl)

\* the record of an access the main thread makes now
main_access(site) ==
    [sdl_log EXCEPT !.thread = "main", !.site = site,
                    !.device = sdl.device, !.lock = sdl.lock,
                    !.callback = sdl.callback, !.main = sdl.main.step]

\* init_sdl, lines 5210-5221: SDL_OpenAudio fails, or opens a device of the
\* wrong format that is closed again, or opens the device, which starts
\* paused
InitSdl(outcome) ==
    /\ sdl.main.at = "init_sdl"
    /\ sdl' = IF outcome = "opened"
              THEN [sdl EXCEPT !.device = "paused", !.audio_available = 1,
                               !.main = [at |-> "init_reset", step |-> "access"]]
              ELSE [sdl EXCEPT !.main = [at |-> "main_reset", step |-> "enter"]]
    /\ UNCHANGED <<nonLockVars, sdl_log>>

\* init_sdl, line 5233: beeper_reset_audio_state on the opened device
InitReset ==
    /\ sdl.main.at = "init_reset"
    /\ sdl_log' = main_access("init_reset")
    /\ sdl' = [sdl EXCEPT !.main = [at |-> "pause", step |-> "enter"]]
    /\ UNCHANGED nonLockVars

\* init_sdl, line 5239: SDL_PauseAudio(0) starts the callbacks
PauseAudio ==
    /\ sdl.main.at = "pause"
    /\ sdl' = [sdl EXCEPT !.device = "playing",
                          !.main = [at |-> "main_reset", step |-> "enter"]]
    /\ UNCHANGED <<nonLockVars, sdl_log>>

\* a section head that goes on to its accesses without SDL_LockAudio
SectionEnterUnlocked ==
    /\ sdl.main.at \in LockSections
    /\ sdl.main.step = "enter"
    /\ sdl' = IF sdl.main.at = "latency" /\ sdl.audio_available = 0
              THEN [sdl EXCEPT !.main = [at |-> "loop", step |-> "enter"]]
              ELSE [sdl EXCEPT !.main.step = "access"]
    /\ UNCHANGED <<nonLockVars, sdl_log>>

\* the head of main's reset (5613-5614), of beeper_push_event (3970-3973)
\* and of beeper_current_latency_samples (572-580): SDL_LockAudio when
\* audio_available, which waits for the lock; without audio the latency
\* query returns at once and the other two go on unlocked
SectionEnter ==
    /\ sdl.main.at \in LockSections
    /\ sdl.main.step = "enter"
    /\ IF sdl.audio_available = 1
       THEN /\ sdl.lock = "free"
            /\ sdl' = [sdl EXCEPT !.lock = "main", !.main.step = "access"]
       ELSE sdl' = IF sdl.main.at = "latency"
                   THEN [sdl EXCEPT !.main = [at |-> "loop", step |-> "enter"]]
                   ELSE [sdl EXCEPT !.main.step = "access"]
    /\ UNCHANGED <<nonLockVars, sdl_log>>

\* the accesses of a section: beeper_reset_audio_state (5615, 5618), the
\* two reads of beeper_current_latency_samples (581-582), and in
\* beeper_push_event first the snapshot, trim and catch-up (3976-4111) and
\* then the store into the ring (4128-4135)
SectionAccess ==
    /\ sdl.main.at \in LockSections
    /\ sdl.main.step \in {"access", "store"}
    /\ sdl_log' = main_access(sdl.main.at)
    /\ sdl' = IF sdl.main.at = "push" /\ sdl.main.step = "access"
              THEN [sdl EXCEPT !.main.step = "store"]
              ELSE IF sdl.audio_available = 1
              THEN [sdl EXCEPT !.main.step = "unlock"]
              ELSE [sdl EXCEPT !.main = [at |-> "loop", step |-> "enter"]]
    /\ UNCHANGED nonLockVars

\* SDL_UnlockAudio at 5616, 4137-4139 and 583
SectionUnlock ==
    /\ sdl.main.at \in LockSections
    /\ sdl.main.step = "unlock"
    /\ sdl' = [sdl EXCEPT !.lock = "free",
                          !.main = [at |-> "loop", step |-> "enter"]]
    /\ UNCHANGED <<nonLockVars, sdl_log>>

\* main's loop: a speaker edge is pushed (5804) or the latency is queried
\* (5679, 5734)
LoopCall(section) ==
    /\ sdl.main.at = "loop"
    /\ sdl_log.iterations < MaxLoopCalls
    /\ sdl' = [sdl EXCEPT !.main = [at |-> section, step |-> "enter"]]
    /\ sdl_log' = [sdl_log EXCEPT !.iterations = @ + 1]
    /\ UNCHANGED nonLockVars

\* cleanup_sdl, lines 5246-5250: SDL_CloseAudio returns once the audio
\* thread has stopped
Cleanup ==
    /\ sdl.main.at = "loop"
    /\ sdl.callback = "idle"
    /\ sdl' = [sdl EXCEPT !.device = "closed", !.audio_available = 0,
                          !.main = [at |-> "done", step |-> "enter"]]
    /\ UNCHANGED <<nonLockVars, sdl_log>>

\* SDL's audio thread takes the device lock and calls audio_callback
CallbackBegin ==
    /\ sdl.device = "playing"
    /\ sdl.lock = "free"
    /\ sdl.callback = "idle"
    /\ sdl_log.callbacks < MaxLockCallbacks
    /\ sdl' = [sdl EXCEPT !.lock = "audio", !.callback = "running"]
    /\ sdl_log' = [sdl_log EXCEPT !.callbacks = @ + 1]
    /\ UNCHANGED nonLockVars

\* audio_callback, lines 5310-5411: the shared state is read and written
CallbackAccess ==
    /\ sdl.callback = "running"
    /\ sdl_log' = [sdl_log EXCEPT !.thread = "audio", !.site = "audio_callback",
                                  !.device = sdl.device, !.lock = sdl.lock,
                                  !.callback = sdl.callback,
                                  !.main = sdl.main.step]
    /\ sdl' = [sdl EXCEPT !.callback = "returning"]
    /\ UNCHANGED nonLockVars

\* audio_callback returns and SDL releases the lock
CallbackEnd ==
    /\ sdl.callback = "returning"
    /\ sdl' = [sdl EXCEPT !.lock = "free", !.callback = "idle"]
    /\ UNCHANGED <<nonLockVars, sdl_log>>

LockNext ==
    \/ \E outcome \in {"failed", "format", "opened"} : InitSdl(outcome)
    \/ InitReset
    \/ PauseAudio
    \/ SectionEnter
    \/ SectionAccess
    \/ SectionUnlock
    \/ \E section \in {"push", "latency"} : LoopCall(section)
    \/ Cleanup
    \/ CallbackBegin
    \/ CallbackAccess
    \/ CallbackEnd

SpecLock == LockInit /\ [][LockNext]_vars

\* ------------------------------------------------------------------------
\* The ULA write queue close to full: io_write called QueueFills times on
\* port 0xFE at the start, before anything is processed, write number i
\* with the byte i.
\* ------------------------------------------------------------------------
QueueFills == {62, 63, 64}

QueueWrites(n) == [i \in 1..n |-> [value |-> i, t_state |-> 0]]

RECURSIVE QueueSetup(_)
QueueSetup(n) ==
    IF n = 0 THEN NoAudio
    ELSE CHOOSE u \in {io_write(before, 254, n, 0) :
                          before \in {QueueSetup(n - 1)}} : TRUE

QueueInit ==
    \E n \in QueueFills :
        /\ cpu = ResetCpu
        /\ memory = Load(0, <<>>)
        /\ total_t_states = 0
        /\ frame_t_state_accumulator = 0
        /\ last = NoCall
        /\ steps = 0
        /\ irqs = 0
        /\ throttles = 0
        /\ start = [name |-> "queue", cpu |-> ResetCpu,
                    memory |-> Load(0, <<>>), prog |-> <<>>]
        /\ TapeIs(NoTape)
        /\ ula_write_queue = QueueSetup(n).queue
        /\ beeper_state = 0
        /\ beeper = NoAudio.beeper
        /\ ula_log = [NoUlaCall EXCEPT !.written = QueueWrites(n)]
        /\ CodecIs(NoFile)
        /\ RecIs(NoOutput)
        /\ LockIs(NoSdl)

QueueNext ==
    \/ \E port \in Ports, value \in {128, 144}, progress \in Progress :
          UlaWrite(port, value, progress)
    \/ \E t_states \in {4, 96} : UlaIterate(t_states)

SpecQueue == QueueInit /\ [][QueueNext]_vars

\* ------------------------------------------------------------------------
\* The beeper ring close to full.  Without an audio device nothing consumes
\* the ring and beeper_cycles_per_sample stays 0, so every speaker edge
\* since the start is still pending: RingEvents(n) is the ring after n
\* edges RingSpacing T-states apart, the first one raising the speaker.
\* ------------------------------------------------------------------------
RingSpacing == 16
RingFills == {8189, 8190, 8191}

RingEvents(n) ==
    [i \in 1..n |-> [t_state |-> RingSpacing * i, level |-> i % 2]]

RingSetup(n) ==
    [queue |-> <<>>, beeper_state |-> n % 2,
     beeper |-> [NoAudio.beeper EXCEPT !.events = RingEvents(n),
                                       !.last_event_t_state = RingSpacing * n,
                                       !.writer_cursor = RingSpacing * n],
     pushed |-> <<>>]

RingInit ==
    \E n \in RingFills :
        /\ cpu = ResetCpu
        /\ memory = Load(0, <<>>)
        /\ total_t_states = RingSpacing * (n + 1)
        /\ frame_t_state_accumulator = 0
        /\ last = NoCall
        /\ steps = 0
        /\ irqs = 0
        /\ throttles = 0
        /\ start = [name |-> "ring", cpu |-> ResetCpu,
                    memory |-> Load(0, <<>>), prog |-> <<>>]
        /\ TapeIs(NoTape)
        /\ UlaIs(RingSetup(n))
        /\ CodecIs(NoFile)
        /\ RecIs(NoOutput)
        /\ LockIs(NoSdl)

RingNext ==
    \/ \E value \in {0, 16} : UlaWrite(254, value, 0)
    \/ UlaIterate(RingSpacing)

SpecRing == RingInit /\ [][RingNext]_vars

\* ------------------------------------------------------------------------
\* Properties
\* ------------------------------------------------------------------------

\* C1: the ROM region [0, 0x4000) is never changed by CPU execution: after
\* any sequence of cpu_step and cpu_interrupt calls every address below
\* 0x4000 still reads the byte it held at the start.
C1_RomIsNeverWritten ==
    \A a \in (DOMAIN memory) \cup (DOMAIN start.memory) :
        a < ROM_SIZE => readByte(memory, a) = readByte(start.memory, a)

\* an interrupt whose push landed on addresses 1 and 0 left the ROM byte
\* at 0 as it was
C1_Witness ==
    /\ start.name = "rom"
    /\ last.call = "interrupt"
    /\ cpu.reg_SP = 0
    /\ readByte(start.memory, 0) = 128
    /\ readByte(memory, 0) = 128

\* C2: after EI executes (also when IFF1 was already 1) no maskable
\* interrupt is accepted before the instruction following that EI has
\* completed: an iteration of main's loop that executed EI never takes the
\* frame interrupt.
C2_NoInterruptBehindEI ==
    (last.call = "main" /\ last.op = 251) => ~last.irq

\* C3: Scenario A.  From reset with EI, HALT, NOP at addresses 0..2, the
\* three steps each return 4 and leave the CPU halted; the interrupt with
\* data 0xFF then returns 13, clears halted, sets PC = 0x0038 and has pushed
\* the return address 0x0002.
C3_ScenarioA ==
    (start.name = "reset" /\ start.prog = <<251, 118, 0>>) =>
        /\ (irqs = 0 /\ steps \in 1..3) => last.t = 4
        /\ (irqs = 0 /\ steps = 3) => cpu.halted # 0
        /\ (irqs = 1 /\ steps = 3 /\ last.call = "interrupt"
                     /\ last.data = 255) =>
              /\ last.t = 13
              /\ cpu.halted = 0
              /\ cpu.reg_PC = 56
              /\ readByte(memory, cpu.reg_SP)
                   + 256 * readByte(memory, cpu.reg_SP + 1) = 2

\* C4: halted is set only by executing opcode 0x76; a step of a halted CPU
\* returns 4, fetches no opcode and leaves PC, SP, memory and the general
\* registers as they were (only R and the pending EI move); halted is
\* cleared only by accepting an interrupt.
C4_Halted ==
    [][/\ (cpu.halted = 0 /\ cpu'.halted # 0) =>
              (last'.call = "step" /\ last'.op = 118)
       /\ (cpu.halted # 0 /\ steps' = steps + 1) =>
              /\ last'.t = 4
              /\ last'.op = -1
              /\ memory' = memory
              /\ [cpu' EXCEPT !.reg_R = cpu.reg_R, !.iff1 = cpu.iff1,
                              !.iff2 = cpu.iff2,
                              !.ei_delay = cpu.ei_delay] = cpu
       /\ (cpu.halted # 0 /\ cpu'.halted = 0) => last'.call = "interrupt"
      ]_vars

\* a halted CPU was stepped and stayed where it was
C4_Witness ==
    /\ cpu.halted # 0
    /\ last.call = "step"
    /\ last.op = -1
    /\ last.t = 4
    /\ steps >= 2

\* C5: accepting an interrupt in IM 0 or IM 1 sets PC = 0x0038 and costs 13
\* T-states; in IM 2 it sets PC to the little-endian word at (I << 8) | data
\* and costs 19 T-states, whatever I and the data byte are.
C5_InterruptVector ==
    [][(last'.call = "interrupt" /\ irqs' = irqs + 1) =>
          IF cpu.interruptMode = 2
          THEN /\ cpu'.reg_PC =
                    readByte(memory, cpu.reg_I * 256 + last'.data)
                    + 256 * readByte(memory, cpu.reg_I * 256 + last'.data + 1)
               /\ last'.t = 19
          ELSE /\ cpu'.reg_PC = 56
               /\ last'.t = 13
      ]_vars

\* the IM 2 interrupt of test_interrupt_im2: I = 0x80, data 0xFF, the word
\* 0x5678 at 0x80FF
C5_Witness ==
    /\ start.name = "im2"
    /\ steps = 0
    /\ last.call = "interrupt"
    /\ last.data = 255
    /\ last.t = 19
    /\ cpu.reg_PC = 22136

\* C6: accepting an interrupt decrements SP by 2 and stores the interrupted
\* PC, low byte first, at the new SP (where the stack is RAM); PC = 0x1234
\* and SP = 0xFFFE give SP = 0xFFFC, mem[0xFFFC] = 0x34, mem[0xFFFD] = 0x12.
C6_InterruptPush ==
    [][(last'.call = "interrupt" /\ irqs' = irqs + 1) =>
          /\ cpu'.reg_SP = (cpu.reg_SP - 2) % 65536
          /\ cpu'.reg_SP >= ROM_SIZE =>
                readByte(memory', cpu'.reg_SP) = cpu.reg_PC % 256
          /\ (cpu'.reg_SP + 1) % 65536 >= ROM_SIZE =>
                readByte(memory', cpu'.reg_SP + 1) = cpu.reg_PC \div 256
      ]_vars

\* C7: one instruction advances the low seven bits of R by 1 when it has no
\* prefix, by 2 when it has a DD, FD, CB or ED prefix or is DDCB/FDCB, and
\* by one more for each further DD/FD byte in front of it.
C7_RAdvance ==
    [][(last'.call = "step" /\ steps' = steps + 1 /\ last'.op # -1
          /\ ~(last'.op = 237 /\ last'.sub = 79)) =>
          cpu'.reg_R % 128 =
             (cpu.reg_R + 1 + last'.nprefix
                + (IF last'.nprefix = 0 /\ last'.op \in {203, 237}
                   THEN 1 ELSE 0)) % 128
      ]_vars

\* C8: bit 7 of R is left alone by every R increment (opcode fetch, prefix
\* fetch, halted step, interrupt), also from 0x7F and 0xFF; only LD R,A
\* changes it.
C8_RBit7 ==
    [][~(last'.call = "step" /\ last'.op = 237 /\ last'.sub = 79) =>
          cpu'.reg_R \div 128 = cpu.reg_R \div 128
      ]_vars

\* C9: LDIR entered with BC = n takes n steps; after k <= n of them the
\* first k bytes are copied in ascending order, HL and DE are k further and
\* BC is n - k; PC is back on the instruction after each of the first n - 1
\* steps and past it after the n-th, which leaves BC = 0 and P/V = 0.
C9_Ldir ==
    (/\ start.name = "block"
     /\ start.prog = <<237, 176>>
     /\ irqs = 0
     /\ steps \in 1..get_BC(start.cpu)) =>
        /\ \A i \in 0..(steps - 1) :
              readByte(memory, get_DE(start.cpu) + i)
                 = readByte(start.memory, get_HL(start.cpu) + i)
        /\ get_HL(cpu) = get_HL(start.cpu) + steps
        /\ get_DE(cpu) = get_DE(start.cpu) + steps
        /\ get_BC(cpu) = get_BC(start.cpu) - steps
        /\ cpu.reg_PC = IF steps < get_BC(start.cpu)
                        THEN start.cpu.reg_PC
                        ELSE start.cpu.reg_PC + 2
        /\ steps = get_BC(start.cpu) => get_flag(cpu.reg_F, FLAG_PV) = 0

\* n = 3, HL = 0x4000, DE = 0x4010, PC = 0: three steps later HL = 0x4003,
\* DE = 0x4013, BC = 0, PC = 2 and the three bytes are at 0x4010..0x4012
C9_Witness ==
    /\ start.name = "block"
    /\ start.prog = <<237, 176>>
    /\ start.cpu.reg_PC = 0
    /\ get_BC(start.cpu) = 3
    /\ irqs = 0
    /\ steps = 3
    /\ get_HL(cpu) = 16387
    /\ get_DE(cpu) = 16403
    /\ get_BC(cpu) = 0
    /\ cpu.reg_PC = 2
    /\ readByte(memory, 16400) = 170
    /\ readByte(memory, 16401) = 187
    /\ readByte(memory, 16402) = 204

\* C10: a DDCB/FDCB rotate, shift, RES or SET writes its result to memory
\* and, for z in {0,1,2,3,4,5,7}, also copies it into B, C, D, E, H, L, A;
\* with z = 6 only memory is written.
C10_IndexedBitCopy ==
    (/\ start.name = "block"
     /\ start.prog \in IndexedBitPrograms
     /\ steps = 1
     /\ irqs = 0
     /\ start.prog[4] \div 64 # 1) =>
        /\ start.prog[4] % 8 # 6 =>
              GetReg(cpu, start.prog[4] % 8) =
                 readByte(memory, IF start.prog[1] = 221
                                  THEN start.cpu.reg_IX ELSE start.cpu.reg_IY)
        /\ start.prog[4] % 8 = 6 =>
              \A r \in {0, 1, 2, 3, 4, 5, 7} :
                  GetReg(cpu, r) = GetReg(start.cpu, r)

\* C11: every opcode the interpreter has no case for, in the main table
\* (with or without a DD/FD prefix) or as a sub-opcode after ED, makes the
\* step abort with a diagnostic; none is executed silently as a no-op.
C11_UnknownOpcodeAborts ==
    (last.call = "step" /\ last.op # -1) =>
        /\ last.op \notin MainImplemented => last.abort
        /\ (last.op = 237 /\ last.sub \notin EDImplemented) => last.abort

\* C12: a read of an even port returns bit 6 equal to the tape EAR level
\* when tape input is enabled and equal to 1 when it is not enabled (no
\* tape, empty tape, tape disabled after a failed reload); bits 5 and 7 are
\* always 1.
C12_EarBit6 ==
    (tape_log.call = "read" /\ tape_log.port % 2 = 0) =>
        /\ Bit(tape_log.result, 6) =
               (IF tape_input_enabled # 0
                THEN (IF tape_ear_state # 0 THEN 1 ELSE 0)
                ELSE 1)
        /\ Bit(tape_log.result, 5) = 1
        /\ Bit(tape_log.result, 7) = 1

\* C14: when PLAY starts a freshly loaded or rewound tape at time now, the
\* EAR level is the waveform's initial level, the first transition is
\* scheduled at now + pulses[0].duration, and the k-th transition happens at
\* now plus the sum of the first k pulse durations.
C14_PlaySchedule ==
    tape_log.run.active =>
        /\ tape_log.call = "play" =>
              /\ tape_ear_state = tape_playback.waveform.initial_level
              /\ tape_playback.next_transition_tstate =
                     tape_log.run.start + tape_playback.waveform.pulses[1]
        /\ \A k \in 1..Len(tape_log.run.edges) :
              tape_log.run.edges[k] =
                  tape_log.run.start
                  + SumPulses(tape_playback.waveform.pulses, k)

\* pause at now, then resume at now
PauseResume(t, now) ==
    tape_resume_playback(tape_pause_playback(t, now), now)

\* C15: on a playing tape, pause(now) immediately followed by resume(now)
\* leaves playback as it was: playing, the level, the cursor and phase, the
\* next transition time, the pause deadline and the elapsed head position
\* are unchanged, also when a transition was already due at or before now.
C15_PauseResumeNoop ==
    tape_playback.playing # 0 =>
        \A r \in {PauseResume(TapeState, total_t_states)} :
            /\ r.pb.playing # 0
            /\ r.pb.level = tape_playback.level
            /\ r.ear = tape_ear_state
            /\ r.pb.waveform_index = tape_playback.waveform_index
            /\ r.pb.phase = tape_playback.phase
            /\ r.pb.current_block = tape_playback.current_block
            /\ r.pb.next_transition_tstate =
                   tape_playback.next_transition_tstate
            /\ r.pb.pause_end_tstate = tape_playback.pause_end_tstate
            /\ tape_playback_elapsed_tstates(r.pb, total_t_states) =
                   tape_playback_elapsed_tstates(tape_playback,
                                                 total_t_states)

\* C16: in waveform playback, update(now) toggles the EAR level once for
\* each pulse that ended at or before now and leaves no such pulse behind;
\* when the last pulse has been consumed playback has stopped and the
\* phase is Done.
C16_WaveformUpdate ==
    (/\ tape_log.call \in {"update", "read"}
     /\ tape_log.call = "read" => tape_log.port % 2 = 0
     /\ tape_input_enabled # 0
     /\ use_waveform(tape_playback)) =>
        /\ \A i \in 1..Len(tape_log.edges) :
              tape_log.edges[i].time <= tape_log.now
        /\ tape_playback.playing # 0 =>
              tape_playback.next_transition_tstate > tape_log.now
        /\ (tape_log.edges # <<>>
             /\ tape_playback.waveform_index
                   = Len(tape_playback.waveform.pulses)) =>
              /\ tape_playback.playing = 0
              /\ tape_playback.phase = "DONE"

\* the ring entries a run of port writes should queue, starting from the
\* speaker level `level`: one per write whose bit 4 differs from the level
\* the writes before it left, stamped with that write's time
RECURSIVE BeeperEdges(_, _)
BeeperEdges(writes, level) ==
    IF writes = <<>> THEN <<>>
    ELSE IF Bit(writes[1].value, 4) # level
    THEN <<[t_state |-> writes[1].t_state, level |-> Bit(writes[1].value, 4)]>>
         \o BeeperEdges(Tail(writes), Bit(writes[1].value, 4))
    ELSE BeeperEdges(Tail(writes), level)

\* C13: processing the queued ULA port writes pushes a beeper event for
\* exactly those writes whose speaker bit (bit 4) differs from the beeper
\* level before them, each event carrying the write's timestamp and the new
\* level; a write that repeats the level pushes nothing.
C13_BeeperEvents ==
    ula_log.call = "process" =>
        ula_log.pushed = BeeperEdges(ula_log.writes, ula_log.level)

\* the pulses a block of the image takes in the waveform
PulsesOfBlock(block) ==
    (IF Len(block.data) > 0 /\ block.data[1] = 0 THEN 8063 ELSE 3223)
    + 2 + 16 * Len(block.data)

\* C17: for the first block of a tape image with L payload bytes, waveform
\* synthesis emits in order P pilot pulses of 2168 T-states (P = 8063 if the
\* first payload byte is 0x00, otherwise 3223), one 667 and one 735 T-state
\* sync pulse, and exactly 16*L data pulses in which each bit, MSB first, is
\* two equal pulses of 855 (bit 0) or 1710 (bit 1) T-states; the pulses of
\* a second block follow directly.
C17_FirstBlockPulses ==
    codec_out.call = "synthesize" =>
        \A P \in {PulsesOfBlock(codec_in.image[1])
                   - 2 - 16 * Len(codec_in.image[1].data)} :
            /\ Len(codec_out.waveform.pulses)
                 = PulsesOfBlock(codec_in.image[1])
                   + (IF Len(codec_in.image) > 1
                      THEN PulsesOfBlock(codec_in.image[2]) ELSE 0)
            /\ \A i \in 1..P : codec_out.waveform.pulses[i] = 2168
            /\ codec_out.waveform.pulses[P + 1] = 667
            /\ codec_out.waveform.pulses[P + 2] = 735
            /\ \A b \in 1..Len(codec_in.image[1].data), bit \in 0..7 :
                  \A d \in {IF Bit(codec_in.image[1].data[b], 7 - bit) = 1
                             THEN 1710 ELSE 855} :
                     /\ codec_out.waveform.pulses[
                            P + 2 + 16 * (b - 1) + 2 * bit + 1] = d
                     /\ codec_out.waveform.pulses[
                            P + 2 + 16 * (b - 1) + 2 * bit + 2] = d

\* the 19-byte header block alone was synthesized into 8063 + 2 + 304
\* pulses
C17_Witness ==
    /\ codec_out.call = "synthesize"
    /\ codec_in.image = <<[data |-> HeaderPayload, pause_ms |-> 1000]>>
    /\ Len(codec_out.waveform.pulses) = 8063 + 2 + 304

\* C18: TAP round trip: for every block with at least one payload byte,
\* the recorder's pulse decoder, given the pulses synthesized from that
\* block, succeeds and returns exactly the payload bytes of the block.
C18_RoundTrip ==
    (/\ codec_out.call = "decode"
     /\ Len(codec_in.image[codec_out.block].data) >= 1) =>
        /\ codec_out.decoded.ok
        /\ codec_out.decoded.data = codec_in.image[codec_out.block].data

\* the second block of an image, whose first pilot pulse carries the pause
\* of the block before it, was decoded back to its three bytes
C18_Witness ==
    /\ codec_out.call = "decode"
    /\ codec_out.block = 2
    /\ codec_in.image[1].pause_ms = 1000
    /\ codec_out.decoded.ok
    /\ codec_out.decoded.data = <<255, 90, 1>>

\* the length of the first maximal run of samples of one sign
FirstRun(samples) ==
    MinOf({j \in 1..Len(samples) :
              (samples[j] >= 0) # (samples[1] >= 0)}
          \cup {Len(samples) + 1}) - 1

\* the lengths n1..nk of the maximal same-sign runs of the samples
RECURSIVE RunLengths(_)
RunLengths(samples) ==
    IF samples = <<>> THEN <<>>
    ELSE <<FirstRun(samples)>>
         \o RunLengths(SubSeq(samples, FirstRun(samples) + 1, Len(samples)))

\* round(n * 3,500,000 / sample_rate), at least 1
RunPulse(n, sample_rate) ==
    MaxOf(1, (2 * n * 3500000 + sample_rate) \div (2 * sample_rate))

\* C19: loading a mono PCM WAV whose samples form k maximal same-sign runs
\* of lengths n1..nk yields a waveform of exactly k pulses, the i-th of
\* round(ni * 3,500,000 / sample_rate) T-states (at least 1), with the
\* initial level given by the sign of the first sample.
C19_WavRuns ==
    codec_out.call = "load" =>
        /\ codec_out.waveform.pulses =
              [i \in 1..Len(RunLengths(codec_in.samples)) |->
                  RunPulse(RunLengths(codec_in.samples)[i],
                           codec_in.sample_rate)]
        /\ codec_in.samples # <<>> =>
              codec_out.waveform.initial_level
                = (IF codec_in.samples[1] >= 0 THEN 1 ELSE 0)

\* the phases in which block block_index (0-based) made toggles, in order
PhasesOf(segments, block_index) ==
    [i \in 1..Cardinality({j \in 1..Len(segments) :
                              segments[j].block = block_index}) |->
        segments[(CHOOSE j \in 1..Len(segments) :
                     /\ segments[j].block = block_index
                     /\ Cardinality({k \in 1..j :
                            segments[k].block = block_index}) = i)].phase]

\* the toggles block block_index made in its Data phase
DataToggles(segments, block_index) ==
    IF \E j \in 1..Len(segments) :
           segments[j].block = block_index /\ segments[j].phase = "DATA"
    THEN segments[CHOOSE j \in 1..Len(segments) :
                     segments[j].block = block_index
                     /\ segments[j].phase = "DATA"].toggles
    ELSE 0

C21_MicPulses ==
    /\ tape_recorder.block_active # 0
           => Len(tape_recorder.pulses) = rec_log.changes
    /\ rec_log.call = "mic" /\ rec_log.before.recording # 0 =>
          IF rec_log.before.block_active = 0
          THEN tape_recorder =
                  [rec_log.before EXCEPT
                      !.block_active = 1,
                      !.last_transition_tstate = rec_log.t_state,
                      !.last_level = rec_log.level,
                      !.block_start_level = rec_log.level]
          ELSE IF rec_log.level = rec_log.before.last_level
          THEN tape_recorder = rec_log.before
          ELSE tape_recorder =
                  [rec_log.before EXCEPT
                      !.pulses =
                          Append(@, rec_log.t_state
                                    - rec_log.before.last_transition_tstate),
                      !.session_dirty = 1,
                      !.last_transition_tstate = rec_log.t_state,
                      !.last_level = rec_log.level]

\* the second level change of an open block: the third event of a session
C21_Witness ==
    /\ rec_log.call = "mic"
    /\ rec_log.before.block_active # 0
    /\ rec_log.level # rec_log.before.last_level
    /\ rec_log.changes = 2
    /\ tape_recorder.pulses = <<17500, 17500>>

\* a block of MIC events at T = 0, 17500 and 35000 with levels 1, 0, 1,
\* captured into an empty WAV recording at 44100 Hz, has just been flushed
\* some time after its last edge
ScenarioE_Flushed ==
    /\ rec_log.call \in {"update", "stop"}
    /\ rec_log.before.output_format = "WAV"
    /\ rec_log.before.sample_rate = 44100
    /\ rec_log.before.recording # 0
    /\ rec_log.before.block_active # 0
    /\ rec_log.before.block_start_level = 1
    /\ rec_log.before.pulses = <<17500, 17500>>
    /\ rec_log.before.last_transition_tstate = 35000
    /\ rec_log.before.last_level = 1
    /\ rec_log.before.audio_samples = <<>>
    /\ rec_log.t_state > 35000
    /\ tape_recorder.pulses = <<>>

\* C22: scenario E: an empty WAV recording at 44100 Hz that gets MIC events
\* at T = 0, 17500 and 35000 with levels 1, 0, 1 holds, once the block is
\* flushed, exactly 220 samples at +amplitude, then exactly 220 samples at
\* -amplitude, then at least one sample at +amplitude.
C22_ScenarioE ==
    ScenarioE_Flushed =>
        /\ Len(tape_recorder.audio_samples) = 3
        /\ tape_recorder.audio_samples[1]
             = [value |-> TAPE_WAV_AMPLITUDE, count |-> 220]
        /\ tape_recorder.audio_samples[2]
             = [value |-> -TAPE_WAV_AMPLITUDE, count |-> 220]
        /\ tape_recorder.audio_samples[3].value = TAPE_WAV_AMPLITUDE
        /\ tape_recorder.audio_samples[3].count >= 1

\* the samples the pulses lo..hi of a block render to
RECURSIVE PulseSamples(_, _, _)
PulseSamples(rec, lo, hi) ==
    IF lo > hi THEN 0
    ELSE IF lo = hi
    THEN tape_recorder_samples_from_tstates(rec.sample_rate, rec.pulses[lo])
    ELSE PulseSamples(rec, lo, (lo + hi) \div 2)
         + PulseSamples(rec, ((lo + hi) \div 2) + 1, hi)

\* a block with pulses, captured for a TAP output, has just been flushed
TapBlockFlushed ==
    /\ rec_log.call \in {"update", "stop"}
    /\ rec_log.before.output_format = "TAP"
    /\ rec_log.before.recording # 0
    /\ rec_log.before.block_active # 0
    /\ Len(rec_log.before.pulses) > 0
    /\ tape_recorder.pulses = <<>>

\* C23: when a block captured for a TAP output is finalized, its audio
\* rendering, the samples of every pulse and of the idle time behind them,
\* is appended to the recorder's audio buffer whether or not the pulses
\* decode; the decoded block is added to the recorded image, and a failed
\* decode adds none.
C23_TapBlockAudio ==
    TapBlockFlushed =>
        /\ tape_recorder.audio_sample_count
             = rec_log.before.audio_sample_count
               + PulseSamples(rec_log.before, 1, Len(rec_log.before.pulses))
               + tape_recorder_samples_from_tstates(
                     rec_log.before.sample_rate,
                     rec_log.t_state - rec_log.before.last_transition_tstate)
        /\ Len(tape_recorder.recorded)
             = Len(rec_log.before.recorded)
               + (IF Len(rec_log.before.pulses) >= 100
                     /\ tape_decode_pulses_to_block(rec_log.before.pulses,
                                                    0).ok
                  THEN 1 ELSE 0)

\* a session that RECORD started in append mode has just been stopped and
\* its capture written
AppendStopped ==
    /\ rec_log.call = "stop"
    /\ rec_log.before.recording # 0
    /\ rec_log.before.append_mode # 0

\* C24: after a shift-append session onto an existing valid 16-bit mono PCM
\* WAV file that captured s samples, the data chunk of the written file is
\* old_length + 2 * s bytes long and holds the old data, unchanged, followed
\* by the new samples, and the RIFF size field and the size field of the
\* data chunk fit the new file.
C24_AppendWav ==
    AppendStopped =>
        /\ output_file.data_size
             = rec_log.file.data_size + 2 * tape_recorder.audio_sample_count
        /\ DataChunk(output_file, output_file.data_size \div 2)
             = JoinRuns(DataChunk(rec_log.file, rec_log.file.data_size \div 2),
                        tape_recorder.audio_samples)
        /\ output_file.riff_size
             = output_file.data_offset + 2 * RunsLen(output_file.body)
        /\ output_file.data_offset = rec_log.file.data_offset
        /\ output_file.sample_rate = rec_log.file.sample_rate

\* the samples of the file RECORD found that lie before the head position
\* it found, all of them when the head is at or past the end
KeptSamples ==
    IF rec_log.file.kind = "none" THEN <<>>
    ELSE DataChunk(rec_log.file,
             MinOf({tape_recorder_samples_from_tstates(
                        rec_log.file.sample_rate, rec_log.head),
                    rec_log.file.data_size \div (rec_log.file.bits \div 8)}))

\* C25: a normal WAV RECORD with the head at position h starts from an
\* empty capture, and the file written when the session stops holds the
\* samples of the file found that lie before h, all of them if h is at or
\* past its end, followed by the samples captured; nothing else of the old
\* file is left.  With nothing to cut and nothing captured the file stays
\* as it was.
C25_OverwriteFromHead ==
    /\ rec_log.call = "start" /\ rec_log.ok
       /\ tape_recorder.output_format = "WAV" /\ tape_recorder.append_mode = 0
          => /\ tape_recorder.audio_samples = <<>>
             /\ tape_recorder.audio_sample_count = 0
             /\ tape_recorder.pulses = <<>>
    /\ rec_log.call = "stop" /\ rec_log.before.recording # 0
       /\ rec_log.before.output_format = "WAV"
       /\ rec_log.before.append_mode = 0
          => IF tape_recorder.audio_sample_count = 0
                /\ (rec_log.file.kind = "none"
                    \/ RunsLen(KeptSamples) * (rec_log.file.bits \div 8)
                         = rec_log.file.data_size)
             THEN output_file = rec_log.file
             ELSE /\ output_file.kind = "wav"
                  /\ output_file.bits = 16
                  /\ output_file.body
                       = JoinRuns(KeptSamples, tape_recorder.audio_samples)
                  /\ output_file.data_size = 2 * RunsLen(output_file.body)
                  /\ output_file.riff_size
                       = output_file.data_offset + output_file.data_size

\* a file of three samples cut after the second and continued with 221
\* captured samples
C25_Witness ==
    /\ rec_log.call = "stop"
    /\ rec_log.before.recording # 0
    /\ rec_log.before.append_mode = 0
    /\ rec_log.file = WavFile(16, 44100, Samples16, 3)
    /\ rec_log.head = 159
    /\ output_file.body
         = <<[value |-> 100, count |-> 2],
             [value |-> TAPE_WAV_AMPLITUDE, count |-> 221]>>

\* the first block of the TZX file given whose ID is not 0x10, 0 if none
FirstForeignBlock ==
    IF \E i \in 1..Len(codec_in.image) :
           codec_in.image[i].id # TZX_STANDARD_BLOCK
    THEN MinOf({i \in 1..Len(codec_in.image) :
                    codec_in.image[i].id # TZX_STANDARD_BLOCK})
    ELSE 0

\* C26: loading a TZX image fails at the first block whose ID is not 0x10:
\* the load returns failure, no tape image is left mounted, and the error
\* reported names the ID of that block and its offset in the file.
C26_TzxUnknownBlock ==
    codec_out.call = "load_tzx" /\ FirstForeignBlock # 0 =>
        /\ ~codec_out.loaded.ok
        /\ codec_out.loaded.image = <<>>
        /\ "block_id" \in DOMAIN codec_out.loaded.error
        /\ codec_out.loaded.error.block_id
             = codec_in.image[FirstForeignBlock].id
        /\ "offset" \in DOMAIN codec_out.loaded.error
        /\ codec_out.loaded.error.offset
             = tzx_block_offset(codec_in.image, FirstForeignBlock)

\* the address BIT b,(IX+0) / BIT b,(IY+0) of the program run works on
BitAddress ==
    IF start.prog[1] = 221 THEN start.cpu.reg_IX ELSE start.cpu.reg_IY

\* C27: BIT b,(IX+d) and BIT b,(IY+d) copy flag bits 3 and 5 from the high
\* byte of the effective address, not from the byte read there; BIT b,r
\* copies them from the register tested.
C27_BitXY ==
    (/\ start.name = "bits"
     /\ start.prog \in BitPrograms
     /\ steps = 1
     /\ irqs = 0) =>
        IF start.prog[1] = 203
        THEN start.prog[2] % 8 # 6 =>
                BitAnd(cpu.reg_F, 40)
                   = BitAnd(GetReg(start.cpu, start.prog[2] % 8), 40)
        ELSE BitAnd(cpu.reg_F, 40) = BitAnd(Hi(BitAddress), 40)

\* n of a block load about to run: A plus the byte at (HL), modulo 256
BlockSum == Byte(cpu.reg_A + readByte(memory, get_HL(cpu)))

\* C28: LDI, LDD, LDIR and LDDR leave flag X (bit 3 of F) equal to bit 3 of
\* n = (A + byte moved) mod 256 and flag Y (bit 5 of F) equal to bit 1 of n.
C28_BlockXY ==
    [][(/\ last'.call = "step"
        /\ steps' = steps + 1
        /\ last'.op = 237
        /\ last'.sub \in {160, 168, 176, 184}) =>
          /\ Bit(cpu'.reg_F, 3) = Bit(BlockSum, 3)
          /\ Bit(cpu'.reg_F, 5) = Bit(BlockSum, 1)
      ]_vars

\* C29 as stated: while the audio device is open, every access of the main
\* thread to the ring head and tail, playback_position, writer_cursor, the
\* last-event timestamp and the filter state is made with the audio lock
\* held.
C29_OpenLocked ==
    sdl_log.thread = "main" /\ sdl_log.device # "closed" =>
        sdl_log.lock = "main"

\* C29: from SDL_PauseAudio(0) until the device is closed every access of
\* the main thread to that state is made with the audio lock held; the one
\* access made with the device open and the lock not held is the reset in
\* init_sdl, while the device is still paused; no access of the main thread
\* is made while an audio callback is in progress, and no callback runs
\* between the accesses of one section of the main thread.
C29_PlayingLocked ==
    /\ sdl_log.thread = "main" /\ sdl_log.device = "playing" =>
          sdl_log.lock = "main"
    /\ sdl_log.thread = "main" /\ sdl_log.device = "paused" =>
          sdl_log.site = "init_reset" /\ sdl_log.lock = "free"
    /\ sdl_log.thread = "main" => sdl_log.callback = "idle"
    /\ sdl_log.thread = "audio" =>
          sdl_log.lock = "audio" /\ sdl_log.main \notin {"store", "unlock"}
    /\ sdl.callback # "idle" /\ sdl.main.at \in LockSections =>
          sdl.main.step = "enter"

\* a speaker edge stored in the ring under the lock after two callbacks ran
C29_Witness ==
    /\ sdl_log.thread = "main"
    /\ sdl_log.site = "push"
    /\ sdl_log.main = "store"
    /\ sdl_log.device = "playing"
    /\ sdl_log.lock = "main"
    /\ sdl_log.callbacks = 2

\* the last n entries of seq, all of it when it has no more
LastEntries(seq, n) == SubSeq(seq, MaxOf(1, Len(seq) - n + 1), Len(seq))

\* C30: the ring holds 8192 pending events: with nothing consumed, the ring
\* after ula_process_port_events is the ring before it followed by the
\* events pushed while that makes no more than 8192, and the newest 8192 of
\* them, in their order, once it makes more.
C30_RingHolds8192 ==
    ula_log.call = "process" /\ start.name = "ring" =>
        beeper.events =
            LastEntries(ula_log.before.events \o ula_log.pushed,
                        BEEPER_EVENT_CAPACITY)

\* C31: the timestamps of the events pending in the beeper ring are
\* strictly increasing from head to tail, whatever pushes, audio callbacks
\* and idle resets came before.
C31_RingStrictlyIncreasing ==
    \A i \in 1..(Len(beeper.events) - 1) :
        beeper.events[i].t_state < beeper.events[i + 1].t_state

\* the writes with the timestamps the queue gives them: each one raised to
\* the latest of those before it
ClampedWrites(written) ==
    [i \in 1..Len(written) |->
        [value |-> written[i].value,
         t_state |-> CHOOSE t \in {written[j].t_state : j \in 1..i} :
                        \A j \in 1..i : written[j].t_state <= t]]

\* C32: after n writes to port 0xFE with no processing between them the
\* ULA write queue holds at most 64 events: the most recent min(n, 64)
\* writes in write order; a write to a full queue discards only the oldest.
C32_WriteQueue ==
    /\ Len(ula_write_queue) <= ULA_WRITE_QUEUE_CAPACITY
    /\ ula_write_queue
         = LastEntries(ClampedWrites(ula_log.written),
                       ULA_WRITE_QUEUE_CAPACITY)

\* 67 writes made: the queue holds writes 4 to 67
C32_Witness ==
    /\ start.name = "queue"
    /\ Len(ula_log.written) = 67
    /\ Len(ula_write_queue) = 64
    /\ ula_write_queue[1].value = 4
    /\ ula_write_queue[64].value = 144
    /\ ula_write_queue[64].t_state = 4

FirstChange(writes, level) ==
    writes[CHOOSE i \in 1..Len(writes) :
              /\ Bit(writes[i].value, 4) # level
              /\ \A j \in 1..(i - 1) : Bit(writes[j].value, 4) = level]

\* how far behind the playback position the event of the call was
PushBehind ==
    ula_log.before.playback_position
        - FirstChange(ula_log.writes, ula_log.level).t_state

PushTolerance ==
    BEEPER_REWIND_TOLERANCE_SAMPLES * ula_log.before.cycles_per_sample

OnePush ==
    /\ ula_log.call = "process"
    /\ Len(ula_log.pushed) = 1
    /\ ula_log.before.cycles_per_sample > 0

C34_RewindResync ==
    OnePush =>
        /\ PushBehind > PushTolerance =>
              /\ beeper.events =
                    <<[t_state |->
                          FirstChange(ula_log.writes, ula_log.level).t_state,
                       level |-> 1 - ula_log.level]>>
              /\ beeper.playback_position =
                    FirstChange(ula_log.writes, ula_log.level).t_state
              /\ beeper.writer_cursor =
                    FirstChange(ula_log.writes, ula_log.level).t_state
              /\ beeper.hp_last_input
                    = hp_baseline(ula_log.before.playback_level)
              /\ beeper.hp_last_output_zero
        /\ (PushBehind >= 0 /\ PushBehind <= PushTolerance) =>
              /\ Len(beeper.events) = Len(ula_log.before.events) + 1
              /\ SubSeq(beeper.events, 1, Len(ula_log.before.events))
                    = ula_log.before.events
              /\ beeper.playback_position = ula_log.before.playback_position

\* an event far behind the playback position arrived while the filter was
\* running on an earlier level change
C34_Witness ==
    /\ OnePush
    /\ PushBehind > PushTolerance
    /\ ~ula_log.before.hp_last_output_zero
    /\ ula_log.before.playback_level = 1
    /\ Len(beeper.events) = 1
    /\ beeper.hp_last_output_zero

C36_NoEnableWithoutEI ==
    [][(cpu.iff1 = 0 /\ cpu'.iff1 # 0) =>
          /\ last.call \in {"step", "main"}
          /\ last.op = 251
          /\ ~last.irq]_vars

MaxGapEvents == 4
MaxGapTicks == 2

\* T-states from one call to the next
GapMicDelays == {2168, 17500}
GapTickDelays == {100000, 350000}

GapInit ==
    /\ cpu = ResetCpu
    /\ memory = Load(0, <<>>)
    /\ total_t_states = 0
    /\ frame_t_state_accumulator = 0
    /\ last = NoCall
    /\ steps = 0
    /\ irqs = 0
    /\ throttles = 0
    /\ start = [name |-> "gap", cpu |-> ResetCpu,
                memory |-> Load(0, <<>>), prog |-> <<>>]
    /\ TapeIs([NoTape EXCEPT !.rec = recorder_enable("WAV", 44100)])
    /\ UlaIs(NoAudio)
    /\ CodecIs(NoFile)
    /\ RecIs(NoOutput)
    /\ LockIs(NoSdl)

\* RECORD pressed once, on a recorder that writes a new file
GapStart ==
    \E s \in {recorder_start_session(RecState, total_t_states, 0)} :
       /\ rec_log.nsessions = 0
       /\ RecCommit(s)
       /\ rec_log' =
            [rec_log EXCEPT
                !.call = "start", !.before = tape_recorder,
                !.file = output_file, !.ok = s.ok, !.nsessions = @ + 1]
       /\ UNCHANGED <<nonRecVars, total_t_states>>

\* io_write on the ULA port with a MIC bit that differs from the last one
GapMic(delay) ==
    /\ tape_recorder.recording # 0
    /\ rec_log.nevents < MaxGapEvents
    /\ total_t_states' = total_t_states + delay
    /\ tape_recorder' =
         tape_recorder_handle_mic(tape_recorder, total_t_states + delay,
                                  IF rec_log.nevents = 0 THEN 1
                                  ELSE 1 - rec_log.level)
    /\ rec_log' =
         [rec_log EXCEPT
            !.call = "mic", !.before = tape_recorder,
            !.t_state = total_t_states + delay,
            !.level = IF rec_log.nevents = 0 THEN 1 ELSE 1 - @,
            !.first = IF rec_log.nevents = 0 THEN total_t_states + delay
                      ELSE @,
            !.nevents = @ + 1]
    /\ UNCHANGED <<nonRecVars, output_file, tape_wav_shared_position_tstates>>

\* main's call of tape_recorder_update after an instruction
GapTick(delay) ==
    /\ tape_recorder.recording # 0
    /\ rec_log.nticks < MaxGapTicks
    /\ total_t_states' = total_t_states + delay
    /\ tape_recorder' =
         recorder_update(tape_recorder, total_t_states + delay, 0)
    /\ rec_log' =
         [rec_log EXCEPT
            !.call = "update", !.before = tape_recorder,
            !.t_state = total_t_states + delay, !.nticks = @ + 1]
    /\ UNCHANGED <<nonRecVars, output_file, tape_wav_shared_position_tstates>>

GapStop ==
    \E s \in {recorder_stop_session(RecState, total_t_states, 1)} :
       /\ tape_recorder.recording # 0
       /\ RecCommit(s)
       /\ rec_log' =
            [rec_log EXCEPT
                !.call = "stop", !.before = tape_recorder,
                !.t_state = total_t_states, !.ok = TRUE]
       /\ UNCHANGED <<nonRecVars, total_t_states>>

GapNext ==
    \/ GapStart
    \/ \E delay \in GapMicDelays : GapMic(delay)
    \/ \E delay \in GapTickDelays : GapTick(delay)
    \/ GapStop

SpecGap == GapInit /\ [][GapNext]_vars

\* C38: in a WAV recording session, whenever tape_recorder_update has just
\* finalized a block on idle silence, the samples captured since the first
\* MIC transition of the session cover the T-states from that transition to
\* the finalization at the recorder's sample rate, up to one sample of
\* rounding per pulse and idle period (so the silence between an earlier
\* finalization and the first MIC event of the next block is counted).
C38_TimingPreserved ==
    (/\ start.name = "gap"
     /\ rec_log.call = "update"
     /\ tape_recorder.recording # 0
     /\ rec_log.before.block_active # 0
     /\ tape_recorder.block_active = 0)
    => /\ tape_recorder.audio_sample_count + rec_log.nevents + rec_log.nticks
            >= tape_recorder_samples_from_tstates(
                   tape_recorder.sample_rate,
                   rec_log.t_state - rec_log.first)
       /\ tape_recorder.audio_sample_count
            <= tape_recorder_samples_from_tstates(
                   tape_recorder.sample_rate,
                   rec_log.t_state - rec_log.first)
               + rec_log.nevents + rec_log.nticks

\* the same over a session's first block, where no finalization precedes
C38_FirstBlock ==
    rec_log.before.audio_sample_count = 0 => C38_TimingPreserved

\* C39: RECORD with append mode on a recorder whose destination is a TAP
\* file leaves the output file as it is and keeps the blocks decoded so far.
C39_AppendTapConflict ==
    [][(/\ rec_log'.call = "start"
        /\ rec_log'.append # 0
        /\ tape_recorder.enabled # 0
        /\ tape_recorder.output_format = "TAP")
       => /\ output_file' = output_file
          /\ tape_recorder'.recorded = tape_recorder.recorded]_vars

\* the same request while a session is running, which is refused
C39_RefusedWhileRecording ==
    [][(/\ rec_log'.call = "start"
        /\ rec_log'.append # 0
        /\ tape_recorder.recording # 0
        /\ tape_recorder.output_format = "TAP")
       => /\ output_file' = output_file
          /\ tape_recorder' = tape_recorder
          /\ ~rec_log'.ok]_vars

\* ------------------------------------------------------------------------
\* Audio throttling: the outer loop of main (one action per iteration up
\* to the inner loop, one per iteration of the inner loop) against the
\* audio callback.  sdl.main holds the locals of main: cycle_accumulator
\* in whole T-states, cycles_to_execute and latency_poll_cycles.  The
\* program is a tone loop at TONE_ORG that the CPU reaches after a stretch
\* of silent code, before the first audio callback has run.
\* ------------------------------------------------------------------------
\* the clock up to which instructions are followed
MaxThrottleTime == 55500
\* the most the performance counter adds to cycle_accumulator in a behaviour
MaxCycles == 2400
\* T-states of wall-clock time between two iterations of the outer loop
Elapsed == {0, MaxCycles}
\* the clock when the CPU enters the tone loop
ThrottleStarts == {50000, 51400, 52000}

TONE_ORG == 32768
\* LD A,16; OUT (254),A; LD A,0; OUT (254),A; JP TONE_ORG
ToneLoop == <<62, 16, 211, 254, 62, 0, 211, 254, 195, 0, 128>>

beeper_latency_threshold(b) == MaxOf(b.throttle_samples, b.max_latency_samples)

\* beeper_current_latency_samples, the whole samples of it: the thresholds
\* it is compared with are whole numbers
beeper_current_latency_samples(b, audio_available) ==
    IF audio_available = 0 \/ b.cycles_per_sample <= 0 THEN 0
    ELSE IF b.writer_cursor - b.playback_position <= 0 THEN 0
    ELSE (b.writer_cursor - b.playback_position) \div b.cycles_per_sample

\* the test both throttle sites of main make
main_throttled(b, audio_available) ==
    /\ audio_available # 0
    /\ b.cycles_per_sample > 0
    /\ beeper_current_latency_samples(b, audio_available)
         >= beeper_latency_threshold(b)

\* latency_poll_threshold of lines 5698-5703
latency_poll_threshold(b, audio_available) ==
    IF audio_available # 0 /\ b.cycles_per_sample > 0
    THEN MaxOf(b.cycles_per_sample * 32, 128)
    ELSE 0

\* main's locals after an iteration of the outer loop up to the inner loop:
\* the time elapsed is added and capped, then the loop delays on the audio
\* latency, or finds no cycle to run, or enters the inner loop
loop_top(m, b, audio_available, elapsed) ==
    IF main_throttled(b, audio_available)
    THEN [m EXCEPT !.step = "delay",
                   !.cycle_accumulator =
                       IF @ + elapsed > CPU_CLOCK_HZ \div 4
                       THEN CPU_CLOCK_HZ \div 4 ELSE @ + elapsed]
    ELSE IF m.cycle_accumulator + elapsed < 1
    THEN [m EXCEPT !.step = "idle"]
    ELSE [m EXCEPT !.at = "inner", !.step = "enter",
                   !.cycle_accumulator =
                       IF @ + elapsed > CPU_CLOCK_HZ \div 4
                       THEN CPU_CLOCK_HZ \div 4 ELSE @ + elapsed,
                   !.cycles_to_execute =
                       IF m.cycle_accumulator + elapsed > CPU_CLOCK_HZ \div 4
                       THEN CPU_CLOCK_HZ \div 4
                       ELSE m.cycle_accumulator + elapsed,
                   !.latency_poll_cycles = 0]

\* whether the latency poll of lines 5727-5737 is made after an
\* instruction of t_states T-states
loop_polls(m, b, audio_available, t_states) ==
    /\ audio_available # 0
    /\ latency_poll_threshold(b, audio_available) > 0
    /\ m.latency_poll_cycles + t_states
         >= latency_poll_threshold(b, audio_available)

\* main's locals after an iteration of the inner loop that ran an
\* instruction of t_states T-states and left the beeper as b
loop_inner(m, b, audio_available, t_states) ==
    IF loop_polls(m, b, audio_available, t_states)
       /\ main_throttled(b, audio_available)
    THEN [m EXCEPT !.at = "top", !.step = "delay",
                   !.cycles_to_execute = @ - t_states,
                   !.cycle_accumulator = MaxOf(@ - t_states, 0),
                   !.latency_poll_cycles = 0]
    ELSE [m EXCEPT !.at = IF m.cycles_to_execute - t_states > 0
                          THEN "inner" ELSE "top",
                   !.step = "run",
                   !.cycles_to_execute = @ - t_states,
                   !.cycle_accumulator = MaxOf(@ - t_states, 0),
                   !.latency_poll_cycles =
                       IF loop_polls(m, b, audio_available, t_states) THEN 0
                       ELSE @ + t_states]

ThrottleInit ==
    \E t0 \in ThrottleStarts :
        /\ cpu = [ResetCpu EXCEPT !.reg_PC = TONE_ORG]
        /\ memory = Load(TONE_ORG, ToneLoop)
        /\ total_t_states = t0
        /\ frame_t_state_accumulator = t0
        /\ last = NoCall
        /\ steps = 0
        /\ irqs = 0
        /\ throttles = 0
        /\ start = [name |-> "throttle",
                    cpu |-> [ResetCpu EXCEPT !.reg_PC = TONE_ORG],
                    memory |-> Load(TONE_ORG, ToneLoop), prog |-> ToneLoop]
        /\ TapeIs(NoTape)
        /\ UlaIs(UlaSetup(DeviceRate))
        /\ CodecIs(NoFile)
        /\ RecIs(NoOutput)
        /\ LockIs([NoSdl EXCEPT
                     !.device = "playing", !.audio_available = 1,
                     !.main = [at |-> "top", step |-> "enter",
                               cycle_accumulator |-> 0,
                               cycles_to_execute |-> 0,
                               latency_poll_cycles |-> 0]])

\* an iteration of the outer loop that does not reach the inner loop, or
\* the part of one before the inner loop
LoopTop(elapsed) ==
    /\ sdl.main.at = "top"
    /\ elapsed = 0 \/ sdl.main.cycle_accumulator + elapsed <= MaxCycles
    /\ sdl' = [sdl EXCEPT
                 !.main = loop_top(@, beeper, sdl.audio_available, elapsed)]
    /\ UNCHANGED <<cpuVars, total_t_states, tapeVars, ulaVars, codecVars, recVars, sdl_log>>

\* one iteration of while (cycles_to_execute > 0)
LoopInner ==
    \E r \in {main_step(step_ei(cpu), memory)} :
    \E u \in {ula_process_port_events(
                  main_queue(UlaState, cpu_step_writes(cpu, memory),
                             total_t_states))} :
    \E m \in {loop_inner(sdl.main, u.beeper, sdl.audio_available, r.t)} :
    \E st \in {IF m.step = "delay"
               THEN main_account(r, frame_t_state_accumulator, total_t_states)
               ELSE frame_loop(main_account(r, frame_t_state_accumulator,
                                            total_t_states))} :
       /\ sdl.main.at = "inner"
       /\ total_t_states <= MaxThrottleTime
       /\ r.modelled
       /\ cpu' = st.cpu
       /\ memory' = st.memory
       /\ total_t_states' = st.total
       /\ frame_t_state_accumulator' = st.frame
       /\ last' = [call |-> "main", t |-> r.t, op |-> r.op, sub |-> r.sub,
                   prefix |-> r.prefix, nprefix |-> r.nprefix,
                   irq |-> st.irq, data |-> 255, abort |-> r.abort]
       /\ steps' = steps + 1
       /\ throttles' = IF m.step = "delay" THEN throttles + 1 ELSE throttles
       /\ TapeCommit(tape_update(TapeState, total_t_states + r.t))
       /\ UlaCommit(u)
       /\ ula_log' = [ula_log EXCEPT !.call = "process", !.before = beeper,
                                     !.pushed = u.pushed]
       /\ sdl' = [sdl EXCEPT !.main = m]
       /\ UNCHANGED <<irqs, start, tape_log, codecVars, recVars, sdl_log>>

\* the audio thread's callback, followed while the ring holds a buffer's
\* worth of backlog
LoopCallback ==
    /\ sdl.device = "playing"
    /\ beeper.cycles_per_sample > 0
    /\ beeper.writer_cursor - beeper.playback_position
         >= beeper.cycles_per_sample * AUDIO_BUFFER_SAMPLES
    /\ beeper' = audio_callback(beeper, AUDIO_BUFFER_SAMPLES)
    /\ ula_log' = [ula_log EXCEPT !.call = "audio", !.before = beeper]
    /\ UNCHANGED <<cpuVars, total_t_states, tapeVars, codecVars, recVars, lockVars, ula_write_queue, beeper_state>>

ThrottleNext ==
    \/ \E elapsed \in Elapsed : LoopTop(elapsed)
    \/ LoopInner
    \/ LoopCallback

SpecThrottle == ThrottleInit /\ [][ThrottleNext]_vars

\* the main thread keeps running, the performance counter keeps advancing
\* and SDL keeps invoking the callback of the playing device; the weak
\* fairness of LoopInner is written out, with the condition that enables it
SpecThrottleFair ==
    /\ SpecThrottle
    /\ WF_vars(\E elapsed \in Elapsed : LoopTop(elapsed))
    /\ \/ []<>~(sdl.main.at = "inner" /\ total_t_states <= MaxThrottleTime)
       \/ []<><<LoopInner>>_vars
    /\ WF_vars(LoopCallback)

\* C40: whenever main delays because the beeper latency is at or above the
\* throttle threshold, with the audio callback being invoked again and
\* again, the latency eventually is below the threshold and main has run
\* an instruction of the CPU again.
C40_ThrottleReleases ==
    (sdl.main.step = "delay" /\ total_t_states <= MaxThrottleTime)
    ~> (/\ sdl.main.step = "run"
        /\ last.call = "main"
        /\ ~main_throttled(beeper, sdl.audio_available))

\* main broke out of the inner loop on the latency poll, a callback played
\* a buffer, and the inner loop is running again
C40_Witness ==
    /\ start.name = "throttle"
    /\ throttles = 1
    /\ sdl.main.step = "run"
    /\ sdl.main.at = "inner"
    /\ ula_log.call = "process"
    /\ beeper.playback_position = beeper.cycles_per_sample * AUDIO_BUFFER_SAMPLES
    /\ ~main_throttled(beeper, sdl.audio_available)

=============================================================================
